---- MODULE Spec2Model ----
(***************************************************************************)
(* A model of the dispatch core of llm0-gateway-starter: the provider      *)
(* manager with failover (internal/gateway/providers/manager.go), the      *)
(* exact-match cache (internal/gateway/cache/cache.go), the Redis rate     *)
(* limiter (redis.Client.CheckRateLimit) with its middleware, and the chat *)
(* handler that sequences them.                                            *)
(*                                                                         *)
(* Strings are sequences of tokens, so that strings.Contains,              *)
(* strings.HasPrefix and fmt.Sprintf are computed, not assumed.            *)
(***************************************************************************)
EXTENDS Integers, Sequences, FiniteSets, TLC

VARIABLES
    errIn,      \* SpecErr: the error a Provider Client returned
    errOut,     \* SpecErr: what isRetryableError answered ("none" before the call)
    keyIn,      \* SpecKey: two decoded ChatRequests
    keyOut,     \* SpecKey: their cache keys (<<>> before the call)
    rlStore,    \* SpecRL: the Redis key ratelimit:<id>
    rlProc,     \* SpecRL: each in-flight request's position in the middleware
    rlHist,     \* SpecRL: history of the run (admissions, overlap, store errors)
    configured, \* Spec, SpecMgr: providers with an API key (Manager.providers)
    apiKey,     \* Spec: the authenticated caller's policy
    cache,      \* Spec: the Redis keys cache:exact:*
    pc,         \* Spec: position of the request in the handler
    req,        \* Spec: the handler's decoded ChatRequest
    loc,        \* Spec: the handler's locals (resp, cacheHit, providerName, failoverUsed)
    mgr,        \* Spec, SpecMgr: Manager.ChatCompletion's locals and its return value
    out,        \* Spec: the HTTP response
    obs,        \* Spec: what the request did (cache reads/writes, provider calls)
    past,       \* Spec: the requests completed before this one
    srIn,       \* SpecStream: the provider and the raw lines its stream delivers
    sr,         \* SpecStream: the streaming loop (position, frames written)
    gate,       \* SpecGate: each request's way through the middleware chain
    bg,         \* SpecBg: the goroutines logRequest started, and the request context
    trIn,       \* SpecTr: the ChatRequest a Provider Client is given
    trOut       \* SpecTr: the upstream requests built from it (<<>> before the call)

vars == <<errIn, errOut, keyIn, keyOut, rlStore, rlProc, rlHist,
          configured, apiKey, cache, pc, req, loc, mgr, out, obs, past,
          srIn, sr, gate, bg, trIn, trOut>>

errVars == <<errIn, errOut>>
keyVars == <<keyIn, keyOut>>
rlVars  == <<rlStore, rlProc, rlHist>>
gwVars  == <<configured, apiKey, cache, pc, req, loc, mgr, out, obs, past>>
hVars   == <<apiKey, cache, pc, req, loc, out, obs, past>>
srVars  == <<srIn, sr>>
trVars  == <<trIn, trOut>>

\* absent values: no error, no response, an optional that is not set
NoErr  == [kind |-> "none"]
NoResp == [kind |-> "none"]
Absent == <<>>
Some(v) == <<v>>

(***************************************************************************)
(* Strings                                                                 *)
(***************************************************************************)

\* strings.Contains on token sequences
Contains(s, sub) ==
    \E i \in 1..(Len(s) - Len(sub) + 1) : SubSeq(s, i, i + Len(sub) - 1) = sub

\* strings.HasPrefix on token sequences
HasPrefix(s, prefix) ==
    Len(s) >= Len(prefix) /\ SubSeq(s, 1, Len(prefix)) = prefix

RECURSIVE Concat(_)
Concat(ss) == IF ss = <<>> THEN <<>> ELSE Head(ss) \o Concat(Tail(ss))

\* %d of a three-digit HTTP status, one token per digit
Digit(n) == CASE n = 0 -> "0" [] n = 1 -> "1" [] n = 2 -> "2" [] n = 3 -> "3"
              [] n = 4 -> "4" [] n = 5 -> "5" [] n = 6 -> "6" [] n = 7 -> "7"
              [] n = 8 -> "8" [] n = 9 -> "9"
FmtStatus(n) == <<Digit(n \div 100), Digit((n \div 10) % 10), Digit(n % 10)>>

(***************************************************************************)
(* Provider errors and their classification                                *)
(***************************************************************************)

MaxBodyLen == 2

\* words an upstream error body may be made of
BodyWords == {"invalid request", "timeout", "rate limit", "4", "2", "9"}

RECURSIVE SeqsUpTo(_, _)
SeqsUpTo(S, n) ==
    IF n = 0 THEN {<<>>}
    ELSE LET shorter == SeqsUpTo(S, n - 1)
         IN shorter \cup {Append(s, x) : s \in {t \in shorter : Len(t) = n - 1}, x \in S}

Bodies == SeqsUpTo(BodyWords, MaxBodyLen)

Statuses == {400, 401, 404, 429, 500, 503}

\* how a failed http.Client.Do reads (net/http, net)
TransportKinds == {"conn_refused", "io_timeout", "client_timeout"}
TransportText(kind) ==
    CASE kind = "conn_refused"   -> <<"dial tcp: ", "connect: ", "connection refused">>
      [] kind = "io_timeout"     -> <<"dial tcp: ", "i/o ", "timeout">>
      [] kind = "client_timeout" -> <<"context deadline exceeded (Client.", "Timeout",
                                      " exceeded while awaiting headers)">>

ProviderNames == {"openai", "anthropic", "google"}

\* the errors a Provider Client can return
ProviderErrors ==
    [provider : ProviderNames, kind : {"status"}, status : Statuses, body : Bodies,
     transport : {""}]
    \cup
    [provider : ProviderNames, kind : {"transport"}, status : {0}, body : {<<>>},
     transport : TransportKinds]

\* err.Error() of the error each Provider Client builds
ErrorText(e) ==
    LET label == CASE e.provider = "google"    -> "Gemini"
                   [] e.provider = "anthropic" -> "Anthropic"
                   [] e.provider = "openai"    -> "OpenAI"
    IN IF e.kind = "canceled"
       \* the http.Client.Do error of a cancelled request context, wrapped with %w
       THEN <<label, " API error: ", "context canceled">>
       ELSE IF e.kind = "transport"
       THEN <<label, " API error: ">> \o TransportText(e.transport)
       ELSE IF e.provider = "openai"
            \* "OpenAI API error: %w" around go-openai's APIError
            THEN <<label, " API error: ", "error, ", "status ", "code: ">>
                 \o FmtStatus(e.status) \o <<", message: ">> \o e.body
            ELSE <<label, " API error (", "status ">>
                 \o FmtStatus(e.status) \o <<"): ">> \o e.body

\* isRetryableError, on the text of the error
isRetryableError(errStr) ==
    \/ Contains(errStr, <<"4", "2", "9">>)
    \/ Contains(errStr, <<"rate limit">>)
    \/ Contains(errStr, <<"timeout">>)
    \/ Contains(errStr, <<"status ", "5">>)

\* the failure class of an error: rate limit, 5xx, timeout or connection failure
RetryableClass(e) ==
    \/ e.kind = "transport"
    \/ e.kind = "status" /\ (e.status = 429 \/ e.status >= 500)

ErrInit ==
    /\ errIn \in ProviderErrors
    /\ errOut = [called |-> FALSE, retryable |-> FALSE]

Classify ==
    /\ ~errOut.called
    /\ errOut' = [called |-> TRUE, retryable |-> isRetryableError(ErrorText(errIn))]
    /\ UNCHANGED <<errIn, keyVars, rlVars, gwVars, srVars, gate, bg, trVars>>

(***************************************************************************)
(* Requests and the cache key                                              *)
(***************************************************************************)

\* heap addresses of the optional fields: of the requests the handler decodes,
\* and of the requests given to generateCacheKey
MaxAddr == 2
KeyMaxAddr == 3

\* a *float32 / *int field: nil, or a pointer to a value
Nil == [addr |-> 0, val |-> 0]
Ptr(a, v) == [addr |-> a, val |-> v]
IsNil(p) == p.addr = 0

\* model names, split after the provider prefix
GPT4o      == <<"gpt-", "4o">>
GPT4oMini  == <<"gpt-", "4o-mini">>
GPT4       == <<"gpt-", "4">>
GPT35      == <<"gpt-", "3.5-turbo">>
Sonnet     == <<"claude-", "sonnet-4-5-20250929">>
Haiku      == <<"claude-", "haiku-4-5-20251001">>
Opus       == <<"claude-", "opus-4-5-20251101">>
GemFlash   == <<"gemini-", "2.5-flash">>
GemPro     == <<"gemini-", "2.5-pro">>
Llama      == <<"llama-", "3">>

Msg(role, content) == [Role |-> role, Content |-> content]

\* message lists of the requests explored
MessageLists ==
    { <<Msg("user", <<"What is 2+2?">>)>>,
      <<Msg("system", <<"Be brief">>), Msg("user", <<"Hi">>)>> }

TemperatureVals == {7, 9}     \* tenths
MaxTokensVals   == {100}
TopPVals        == {9}        \* tenths

PtrsTo(vals, addrs) == {Nil} \cup {Ptr(a, v) : a \in addrs, v \in vals}

\* separately allocated fields never share an address
DistinctAddrs(r) ==
    /\ IsNil(r.Temperature) \/ r.Temperature.addr \notin {r.MaxTokens.addr, r.TopP.addr}
    /\ IsNil(r.MaxTokens) \/ r.MaxTokens.addr # r.TopP.addr

\* ChatRequest as json.Decode leaves it in memory, its optional fields on the
\* heap at addresses of addrs
ChatRequests(models, streams, addrs) ==
    {r \in [Model : models, Messages : MessageLists,
            Temperature : PtrsTo(TemperatureVals, addrs),
            MaxTokens : PtrsTo(MaxTokensVals, addrs),
            TopP : PtrsTo(TopPVals, addrs), Stream : streams] : DistinctAddrs(r)}

\* the value of an optional field, as the caller sent it
ValueOf(p) == IF IsNil(p) THEN Absent ELSE Some(p.val)

\* two requests are equal field by field, by value
SameRequest(a, b) ==
    /\ a.Model = b.Model
    /\ a.Messages = b.Messages
    /\ ValueOf(a.Temperature) = ValueOf(b.Temperature)
    /\ ValueOf(a.MaxTokens) = ValueOf(b.MaxTokens)
    /\ ValueOf(a.TopP) = ValueOf(b.TopP)

\* fmt %v of a pointer: the address it holds, never the value behind it
FmtPtr(p) == IF IsNil(p) THEN <<"<nil>">> ELSE <<"0x", p.addr>>

\* fmt %v of one message and of the message slice
FmtMessage(m) == <<"{", m.Role, " ">> \o m.Content \o <<"}">>
RECURSIVE FmtMessagesFrom(_, _)
FmtMessagesFrom(ms, i) ==
    IF i > Len(ms) THEN <<>>
    ELSE (IF i > 1 THEN <<" ">> ELSE <<>>) \o FmtMessage(ms[i]) \o FmtMessagesFrom(ms, i + 1)
FmtMessages(ms) == <<"[">> \o FmtMessagesFrom(ms, 1) \o <<"]">>

\* the string generateCacheKey hashes
KeyData(r) ==
    r.Model \o <<":">> \o FmtMessages(r.Messages) \o <<":">> \o FmtPtr(r.Temperature)
    \o <<":">> \o FmtPtr(r.MaxTokens) \o <<":">> \o FmtPtr(r.TopP)

\* SHA-256 is taken to be injective: the digest stands for the string hashed
generateCacheKey(r) == <<"cache:exact:">> \o KeyData(r)

KeyModels == {GPT4oMini, Sonnet}

KeyInit ==
    /\ keyIn \in ChatRequests(KeyModels, {FALSE}, 1..KeyMaxAddr)
                 \X ChatRequests(KeyModels, {FALSE}, 1..KeyMaxAddr)
    /\ keyOut = <<>>

\* both requests are fingerprinted
Fingerprint ==
    /\ keyOut = <<>>
    /\ keyOut' = <<generateCacheKey(keyIn[1]), generateCacheKey(keyIn[2])>>
    /\ UNCHANGED <<keyIn, errVars, rlVars, gwVars, srVars, gate, bg, trVars>>

(***************************************************************************)
(* Provider Clients: the upstream request each builds from a ChatRequest   *)
(***************************************************************************)

\* messages one request carries at most
MaxMsgs == 3

\* the messages and the requests the translations are explored with
TrMessages ==
    {Msg("system", c) : c \in {<<"A">>, <<"B">>, <<>>}}
    \cup {Msg("user", <<"A">>), Msg("assistant", <<"B">>)}
TrRequests ==
    [Model : {Sonnet}, Messages : SeqsUpTo(TrMessages, MaxMsgs),
     Temperature : {Nil, Ptr(1, 0), Ptr(1, 7)},
     MaxTokens : {Nil, Ptr(2, 0), Ptr(2, 100)},
     TopP : {Nil, Ptr(3, 9)}, Stream : {FALSE}]

\* openai.ChatCompletionRequest as OpenAIProvider fills it: plain fields
\* that stay at their zero value unless the pointer of the request is set
OpenAIRequest(r, stream) ==
    [Model |-> r.Model, Messages |-> r.Messages,
     Temperature |-> IF ~IsNil(r.Temperature) THEN r.Temperature.val ELSE 0,
     MaxTokens   |-> IF ~IsNil(r.MaxTokens) THEN r.MaxTokens.val ELSE 0,
     TopP        |-> IF ~IsNil(r.TopP) THEN r.TopP.val ELSE 0,
     Stream |-> stream]

\* a loop body that appends every system message to the prompt
AnthropicLoopBodyConcat(acc, msg) ==
    IF msg.Role = "system"
    THEN [acc EXCEPT !.systemPrompt = @ \o msg.Content]
    ELSE [acc EXCEPT !.Messages = Append(@, [Role |-> msg.Role, Content |-> msg.Content])]

\* the body of the loop of convertRequest over req.Messages
AnthropicLoopBody(acc, msg) ==
    IF msg.Role = "system"
    THEN [acc EXCEPT !.systemPrompt = msg.Content]
    ELSE [acc EXCEPT !.Messages = Append(@, [Role |-> msg.Role, Content |-> msg.Content])]

RECURSIVE AnthropicLoop(_, _, _)
AnthropicLoop(acc, msgs, i) ==
    IF i > Len(msgs) THEN acc
    ELSE AnthropicLoop(AnthropicLoopBody(acc, msgs[i]), msgs, i + 1)

\* MaxTokens: 4096
AnthropicDefaultMaxTokens == 4096

\* AnthropicProvider.convertRequest: the AnthropicRequest and the system prompt
AnthropicConvertRequest(r) ==
    LET acc == AnthropicLoop([Messages |-> <<>>, systemPrompt |-> <<>>], r.Messages, 1)
    IN [Model |-> r.Model, Messages |-> acc.Messages,
        MaxTokens |-> IF ~IsNil(r.MaxTokens) /\ r.MaxTokens.val > 0
                      THEN r.MaxTokens.val ELSE AnthropicDefaultMaxTokens,
        Temperature |-> r.Temperature, System |-> <<>>, Stream |-> FALSE,
        systemPrompt |-> acc.systemPrompt]

\* the AnthropicRequest that ChatCompletion / ChatCompletionStream marshal
AnthropicRequest(r, stream) ==
    LET c == AnthropicConvertRequest(r)
    IN [Model |-> c.Model, Messages |-> c.Messages, MaxTokens |-> c.MaxTokens,
        Temperature |-> c.Temperature,
        System |-> IF c.systemPrompt # <<>> THEN c.systemPrompt ELSE c.System,
        Stream |-> stream]

\* role of a message in Gemini's contents
GeminiRole(role) ==
    IF role = "assistant" THEN "model" ELSE IF role = "system" THEN "user" ELSE role

\* GeminiProvider.convertRequest, used by both calls
GeminiRequest(r) ==
    [Contents |-> [i \in 1..Len(r.Messages) |->
                      [Role |-> GeminiRole(r.Messages[i].Role), Text |-> r.Messages[i].Content]],
     GenerationConfig |->
         IF ~IsNil(r.Temperature) \/ ~IsNil(r.MaxTokens) \/ ~IsNil(r.TopP)
         THEN Some([Temperature |-> r.Temperature, TopP |-> r.TopP,
                    MaxOutputTokens |-> r.MaxTokens])
         ELSE Absent]

TrInit == trIn \in TrRequests /\ trOut = <<>>

\* each Provider Client builds its upstream request, for both calls
Translate ==
    /\ trOut = <<>>
    /\ trOut' = <<[openai          |-> OpenAIRequest(trIn, FALSE),
                   openaiStream    |-> OpenAIRequest(trIn, TRUE),
                   anthropic       |-> AnthropicRequest(trIn, FALSE),
                   anthropicStream |-> AnthropicRequest(trIn, TRUE),
                   google          |-> GeminiRequest(trIn),
                   googleStream    |-> GeminiRequest(trIn)]>>
    /\ UNCHANGED <<trIn, errVars, keyVars, rlVars, gwVars, srVars, gate, bg>>

(***************************************************************************)
(* Manager: routing, failover chains, ChatCompletion                       *)
(***************************************************************************)

\* a table whose chain for gpt-4o begins with another model of the same provider
FailoverTableSameProvider(model) ==
    CASE model = GPT4o -> <<GPT4oMini, Sonnet>>
      [] OTHER         -> <<>>

\* Manager.failover as setupFailoverChains fills it; <<>> stands for "no entry"
FailoverTable(model) ==
    CASE model = GPT4o     -> <<Sonnet, GemPro>>
      [] model = GPT4oMini -> <<Haiku, GemFlash>>
      [] model = GPT4      -> <<Opus, GemPro>>
      [] model = Sonnet    -> <<GPT4o, GemPro>>
      [] model = Haiku     -> <<GPT4oMini, GemFlash>>
      [] model = GemFlash  -> <<GPT4oMini, Haiku>>
      [] model = GemPro    -> <<GPT4o, Sonnet>>
      [] OTHER             -> <<>>

detectProvider(model) ==
    IF HasPrefix(model, <<"gpt-">>) THEN "openai"
    ELSE IF HasPrefix(model, <<"claude-">>) THEN "anthropic"
    ELSE IF HasPrefix(model, <<"gemini-">>) THEN "google"
    ELSE ""

ErrUnknownModel(model)  == [kind |-> "unknown_model", model |-> model]
ErrNotConfigured(name)  == [kind |-> "not_configured", provider |-> name]
ErrAllFailed(model)     == [kind |-> "all_failed", model |-> model]

\* Manager.GetProvider: (provider, providerName, err)
GetProvider(model, cfg) ==
    LET providerName == detectProvider(model)
    IN IF providerName = ""
       THEN [name |-> "", err |-> ErrUnknownModel(model)]
       ELSE IF providerName \notin cfg
            THEN [name |-> "", err |-> ErrNotConfigured(providerName)]
            ELSE [name |-> providerName, err |-> NoErr]

\* a GetFailoverChain that does not filter by configured providers
GetFailoverChainUnfiltered(model, cfg) ==
    FailoverTable(model)

\* Manager.GetFailoverChain: the chain of the model, without the models whose
\* provider is not configured
GetFailoverChain(model, cfg) ==
    SelectSeq(FailoverTable(model), LAMBDA fallbackModel : detectProvider(fallbackModel) \in cfg)

\* what a provider answers on success
Usage == [PromptTokens |-> 1000, CompletionTokens |-> 2000, TotalTokens |-> 3000]
ProviderResponse(name, model) ==
    [Model |-> model, Content |-> <<"reply of ", name>>, Usage |-> Usage,
     LatencyMs |-> 1, CostUSD |-> 0]

\* the errors one provider call of the manager may end with
MgrErrorsOf(name) == {e \in ProviderErrors : e.provider = name /\ Len(e.body) <= 1}
Success == [kind |-> "success"]
OutcomesOf(name) == {Success} \cup MgrErrorsOf(name)

\* what a provider call returns when its ctx is cancelled (http.NewRequestWithContext)
ErrCanceled(name) ==
    [provider |-> name, kind |-> "canceled", status |-> 0, body |-> <<>>, transport |-> ""]

\* the outcomes of a provider call under the request context: any outcome, or
\* the cancellation, while ctx is live; only the cancellation once it is cancelled
CtxOutcomesOf(m, name) ==
    IF m.ctx = "canceled" THEN {ErrCanceled(name)}
    ELSE OutcomesOf(name) \cup {ErrCanceled(name)}

\* the request context after a call that ended with outcome
CtxAfter(m, outcome) ==
    IF outcome.kind = "canceled" THEN [m EXCEPT !.ctx = "canceled"] ELSE m

Return(resp, providerName, failoverUsed, err) ==
    [resp |-> resp, providerName |-> providerName, failoverUsed |-> failoverUsed, err |-> err]

NoReturn == Return(NoResp, "", FALSE, NoErr)

\* Manager.ChatCompletion before its first provider call
MgrIdle ==
    [pc |-> "idle", originalModel |-> <<>>, originalProvider |-> "", model |-> <<>>,
     providerName |-> "", chain |-> <<>>, idx |-> 0, calls |-> <<>>,
     primaryErr |-> NoErr, ret |-> NoReturn, ctx |-> "live"]

\* a manager that turns to the failover chain when the model cannot be routed
MgrEnterFallsBack(model, cfg) ==
    LET p == GetProvider(model, cfg)
        m == [MgrIdle EXCEPT !.originalModel = model, !.model = model,
                             !.originalProvider = detectProvider(model)]
        chain == GetFailoverChain(model, cfg)
    IN IF p.err # NoErr
       THEN IF chain # <<>>
            THEN [m EXCEPT !.pc = "fallback", !.chain = chain, !.idx = 1, !.model = chain[1]]
            ELSE [m EXCEPT !.pc = "returned", !.ret = Return(NoResp, "", FALSE, p.err)]
       ELSE [m EXCEPT !.pc = "primary", !.providerName = p.name]

\* entry of ChatCompletion up to GetProvider(req.Model)
MgrEnter(model, cfg) ==
    LET p == GetProvider(model, cfg)
        m == [MgrIdle EXCEPT !.originalModel = model, !.model = model,
                             !.originalProvider = detectProvider(model)]
    IN IF p.err # NoErr
       THEN [m EXCEPT !.pc = "returned", !.ret = Return(NoResp, "", FALSE, p.err)]
       ELSE [m EXCEPT !.pc = "primary", !.providerName = p.name]

MgrRetryable(e) == isRetryableError(ErrorText(e))

\* the call failed with an error isRetryableError accepts
IsRetryableOutcome(outcome) == outcome # Success /\ MgrRetryable(outcome)

\* the provider the next call of the manager goes to ("" when none)
MgrNextProvider(m, cfg) ==
    IF m.pc = "primary" THEN m.providerName
    ELSE IF m.pc = "fallback" THEN GetProvider(m.chain[m.idx], cfg).name
    ELSE ""

\* a manager that reports the provider of the fallback tried last
MgrAdvanceLastProvider(m) ==
    IF m.idx < Len(m.chain)
    THEN [m EXCEPT !.pc = "fallback", !.idx = m.idx + 1, !.model = m.chain[m.idx + 1]]
    ELSE [m EXCEPT !.pc = "returned",
                   !.ret = Return(NoResp, detectProvider(m.model), FALSE,
                                  ErrAllFailed(m.originalModel))]

\* after the last fallback: the aggregate error, with the original provider
MgrAdvance(m) ==
    IF m.idx < Len(m.chain)
    THEN [m EXCEPT !.pc = "fallback", !.idx = m.idx + 1, !.model = m.chain[m.idx + 1]]
    ELSE [m EXCEPT !.pc = "returned",
                   !.ret = Return(NoResp, m.originalProvider, FALSE, ErrAllFailed(m.originalModel))]

\* a manager that fails over on every error of the primary
MgrPrimaryStepAlwaysFailover(m, cfg, outcome) ==
    LET called == [m EXCEPT !.calls = Append(m.calls,
                      [provider |-> m.providerName, model |-> m.model, ok |-> outcome = Success,
                       retryable |-> IsRetryableOutcome(outcome)])]
    IN IF outcome = Success
       THEN [called EXCEPT !.pc = "returned",
                !.ret = Return(ProviderResponse(m.providerName, m.model), m.providerName, FALSE, NoErr)]
       ELSE MgrAdvance([called EXCEPT !.primaryErr = outcome,
                           !.chain = GetFailoverChain(m.originalModel, cfg)])

\* the primary call and what follows it up to the next provider call
MgrPrimaryStep(m, cfg, outcome) ==
    LET called == [m EXCEPT !.calls = Append(m.calls,
                      [provider |-> m.providerName, model |-> m.model, ok |-> outcome = Success,
                       retryable |-> IsRetryableOutcome(outcome)])]
    IN IF outcome = Success
       THEN [called EXCEPT !.pc = "returned",
                !.ret = Return(ProviderResponse(m.providerName, m.model), m.providerName, FALSE, NoErr)]
       ELSE IF ~MgrRetryable(outcome)
            THEN [called EXCEPT !.pc = "returned", !.primaryErr = outcome,
                     !.ret = Return(NoResp, m.providerName, FALSE, outcome)]
            ELSE MgrAdvance([called EXCEPT !.primaryErr = outcome,
                                !.chain = GetFailoverChain(m.originalModel, cfg)])

\* a fallback loop that forgets to set failoverUsed
MgrFallbackStepNoFlag(m, cfg, outcome) ==
    LET p == GetProvider(m.model, cfg)
    IN IF p.err # NoErr
       THEN MgrAdvance(m)
       ELSE LET called == [m EXCEPT !.calls = Append(m.calls,
                             [provider |-> p.name, model |-> m.model, ok |-> outcome = Success,
                              retryable |-> IsRetryableOutcome(outcome)])]
            IN IF outcome = Success
               THEN [called EXCEPT !.pc = "returned",
                        !.ret = Return(ProviderResponse(p.name, m.model), p.name, FALSE, NoErr)]
               ELSE MgrAdvance(called)

\* a fallback loop that gives up at the first fallback error that is not retryable
MgrFallbackStepStopsOnPermanent(m, cfg, outcome) ==
    LET p == GetProvider(m.model, cfg)
    IN IF p.err # NoErr
       THEN MgrAdvance(m)
       ELSE LET called == [m EXCEPT !.calls = Append(m.calls,
                             [provider |-> p.name, model |-> m.model, ok |-> outcome = Success,
                              retryable |-> IsRetryableOutcome(outcome)])]
            IN IF outcome = Success
               THEN [called EXCEPT !.pc = "returned",
                        !.ret = Return(ProviderResponse(p.name, m.model), p.name, TRUE, NoErr)]
               ELSE IF ~MgrRetryable(outcome)
                    THEN [called EXCEPT !.pc = "returned",
                             !.ret = Return(NoResp, p.name, FALSE, outcome)]
                    ELSE MgrAdvance(called)

\* one iteration of the fallback loop (req.Model is already the fallback model)
MgrFallbackStep(m, cfg, outcome) ==
    LET p == GetProvider(m.model, cfg)
    IN IF p.err # NoErr
       THEN MgrAdvance(m)
       ELSE LET called == [m EXCEPT !.calls = Append(m.calls,
                             [provider |-> p.name, model |-> m.model, ok |-> outcome = Success,
                              retryable |-> IsRetryableOutcome(outcome)])]
            IN IF outcome = Success
               THEN [called EXCEPT !.pc = "returned",
                        !.ret = Return(ProviderResponse(p.name, m.model), p.name, TRUE, NoErr)]
               ELSE MgrAdvance(called)

MgrStep(m, cfg, outcome) ==
    IF m.pc = "primary" THEN MgrPrimaryStep(m, cfg, outcome)
    ELSE MgrFallbackStep(m, cfg, outcome)

\* models a caller may ask the manager for
MgrModels == {GPT4o, GPT4oMini, GPT4, GPT35, Sonnet, Haiku, GemFlash, GemPro, Llama}

MgrInit ==
    /\ configured \in SUBSET ProviderNames
    /\ mgr = MgrIdle

\* ChatCompletion is called
MgrCall ==
    /\ mgr.pc = "idle"
    /\ \E model \in MgrModels : mgr' = MgrEnter(model, configured)
    /\ UNCHANGED <<configured, hVars, errVars, keyVars, rlVars, srVars, gate, bg, trVars>>

\* provider.ChatCompletion of the primary provider returns
MgrPrimary ==
    /\ mgr.pc = "primary"
    /\ \E outcome \in CtxOutcomesOf(mgr, mgr.providerName) :
           mgr' = CtxAfter(MgrPrimaryStep(mgr, configured, outcome), outcome)
    /\ UNCHANGED <<configured, hVars, errVars, keyVars, rlVars, srVars, gate, bg, trVars>>

\* one fallback is tried
MgrFallback ==
    /\ mgr.pc = "fallback"
    /\ \E outcome \in CtxOutcomesOf(mgr, MgrNextProvider(mgr, configured)) :
           mgr' = CtxAfter(MgrFallbackStep(mgr, configured, outcome), outcome)
    /\ UNCHANGED <<configured, hVars, errVars, keyVars, rlVars, srVars, gate, bg, trVars>>

(***************************************************************************)
(* Rate limiter: redis.Client.CheckRateLimit and RateLimitMiddleware       *)
(***************************************************************************)

\* requests of the one caller, and the largest rate_limit_per_minute explored
NProcs == 3
MaxLimit == 2

\* limit = 100 // fallback default
DefaultLimit == 100

Procs == 1..NProcs

\* limit := apiKey.RateLimitPerMinute; if limit <= 0 { limit = 100 }
EffectiveLimit(rateLimitPerMinute) ==
    IF rateLimitPerMinute <= 0 THEN DefaultLimit ELSE rateLimitPerMinute

\* the key ratelimit:<id> in Redis
NoKey == [exists |-> FALSE, count |-> 0, ttl |-> FALSE]
RedisSetEx(key, n)  == [exists |-> TRUE, count |-> n, ttl |-> TRUE]
RedisIncr(key)      == IF key.exists THEN [key EXCEPT !.count = key.count + 1]
                       ELSE [exists |-> TRUE, count |-> 1, ttl |-> FALSE]
RedisExpire(key)    == IF key.exists THEN [key EXCEPT !.ttl = TRUE] ELSE key

NoHeaders == [limit |-> Absent, remaining |-> Absent, retryAfter |-> Absent]

\* hasKey: the context carries an *models.APIKey; err: CheckRateLimit returned err != nil
RLIdle == [pc |-> "idle", limit |-> 0, count |-> 0, newCount |-> 0, status |-> 0,
           headers |-> NoHeaders, passed |-> FALSE, hasKey |-> TRUE, err |-> FALSE]

\* no api_key in the request context: next is called at once
RLNoIdentity == [RLIdle EXCEPT !.pc = "done", !.passed = TRUE, !.hasKey = FALSE]

\* a middleware that answers 429 when the store cannot be asked
RLFailClosed(proc) ==
    [proc EXCEPT !.pc = "done", !.err = TRUE, !.status = 429,
                 !.headers = [limit |-> Some(proc.limit), remaining |-> Some(0),
                              retryAfter |-> Some(60)]]

\* CheckRateLimit returned an error: the middleware calls next without headers
RLFailOpen(proc) == [proc EXCEPT !.pc = "done", !.err = TRUE, !.passed = TRUE]

\* CheckRateLimit returned (false, remaining, nil): headers, then next
RLAdmit(proc, remaining) ==
    [proc EXCEPT !.pc = "done", !.passed = TRUE,
                 !.headers = [limit |-> Some(proc.limit), remaining |-> Some(remaining),
                              retryAfter |-> Absent]]

\* a middleware that writes the 429 and calls next all the same
RLRejectFallsThrough(proc) ==
    [proc EXCEPT !.pc = "done", !.status = 429, !.passed = TRUE,
                 !.headers = [limit |-> Some(proc.limit), remaining |-> Some(0),
                              retryAfter |-> Some(60)]]

\* CheckRateLimit returned (true, 0, nil): headers, Retry-After, 429
RLReject(proc) ==
    [proc EXCEPT !.pc = "done", !.status = 429,
                 !.headers = [limit |-> Some(proc.limit), remaining |-> Some(0),
                              retryAfter |-> Some(60)]]

\* a limiter that reports the difference as it is
RemainingUnclamped(limit, newCount) == limit - newCount

\* remaining := limit - int(newCount); if remaining < 0 { remaining = 0 }
Remaining(limit, newCount) == IF limit - newCount < 0 THEN 0 ELSE limit - newCount

ExceededOffByOne(count, limit) == count > limit

\* if count >= limit { return true, 0, nil }
Exceeded(count, limit) == count >= limit

InFlight(p) == rlProc[p].pc \notin {"idle", "done"}

RLInit ==
    /\ rlStore = NoKey
    /\ rlProc = [p \in Procs |-> RLIdle]
    /\ rlHist \in [rateLimitPerMinute : 0..MaxLimit, admitted : {0}, overlap : {FALSE},
                    storeErr : {FALSE}, rolled : {FALSE}]

\* a request of the caller enters RateLimitMiddleware (requests are numbered in
\* the order they arrive)
RLStart(p) ==
    /\ rlProc[p].pc = "idle"
    /\ \A q \in Procs : q < p => rlProc[q].pc # "idle"
    /\ \E ok \in BOOLEAN :
         IF ~ok
         THEN /\ rlProc' = [rlProc EXCEPT ![p] = RLNoIdentity]
              /\ rlHist' = rlHist
         ELSE /\ rlProc' = [rlProc EXCEPT ![p] = [RLIdle EXCEPT !.pc = "get",
                                 !.limit = EffectiveLimit(rlHist.rateLimitPerMinute)]]
              /\ rlHist' = [rlHist EXCEPT !.overlap = @ \/ \E q \in Procs : InFlight(q)]
    /\ UNCHANGED <<rlStore, errVars, keyVars, gwVars, srVars, gate, bg, trVars>>

\* count, err := c.client.Get(ctx, key).Int() and the branches on it
RLGet(p) ==
    /\ rlProc[p].pc = "get"
    /\ \E storeOk \in BOOLEAN :
         IF ~storeOk
         THEN /\ rlProc' = [rlProc EXCEPT ![p] = RLFailOpen(@)]
              /\ rlHist' = [rlHist EXCEPT !.storeErr = TRUE]
         ELSE /\ rlHist' = rlHist
              /\ IF ~rlStore.exists
                 THEN rlProc' = [rlProc EXCEPT ![p].pc = "set"]
                 ELSE IF Exceeded(rlStore.count, rlProc[p].limit)
                      THEN rlProc' = [rlProc EXCEPT ![p] = RLReject(@)]
                      ELSE rlProc' = [rlProc EXCEPT ![p].pc = "incr", ![p].count = rlStore.count]
    /\ UNCHANGED <<rlStore, errVars, keyVars, gwVars, srVars, gate, bg, trVars>>

\* first request in this window: Set(key, 1, time.Minute)
RLSet(p) ==
    /\ rlProc[p].pc = "set"
    /\ \E storeOk \in BOOLEAN :
         IF ~storeOk
         THEN /\ rlProc' = [rlProc EXCEPT ![p] = RLFailOpen(@)]
              /\ rlHist' = [rlHist EXCEPT !.storeErr = TRUE]
              /\ UNCHANGED <<rlStore, errVars, keyVars, gwVars, srVars, gate, bg, trVars>>
         ELSE /\ rlStore' = RedisSetEx(rlStore, 1)
              /\ rlProc' = [rlProc EXCEPT ![p] = RLAdmit(@, rlProc[p].limit - 1)]
              /\ rlHist' = [rlHist EXCEPT !.admitted = @ + 1]
    /\ UNCHANGED <<errVars, keyVars, gwVars, srVars, gate, bg, trVars>>

\* newCount, err := c.client.Incr(ctx, key).Result()
RLIncr(p) ==
    /\ rlProc[p].pc = "incr"
    /\ \E storeOk \in BOOLEAN :
         IF ~storeOk
         THEN /\ rlProc' = [rlProc EXCEPT ![p] = RLFailOpen(@)]
              /\ rlHist' = [rlHist EXCEPT !.storeErr = TRUE]
              /\ UNCHANGED <<rlStore, errVars, keyVars, gwVars, srVars, gate, bg, trVars>>
         ELSE LET newCount == RedisIncr(rlStore).count
              IN /\ rlStore' = RedisIncr(rlStore)
                 /\ IF newCount = 1
                    THEN /\ rlProc' = [rlProc EXCEPT ![p].pc = "expire", ![p].newCount = newCount]
                         /\ rlHist' = rlHist
                    ELSE /\ rlProc' = [rlProc EXCEPT ![p] =
                                          RLAdmit([@ EXCEPT !.newCount = newCount],
                                                  Remaining(rlProc[p].limit, newCount))]
                         /\ rlHist' = [rlHist EXCEPT !.admitted = @ + 1]
    /\ UNCHANGED <<errVars, keyVars, gwVars, srVars, gate, bg, trVars>>

\* c.client.Expire(ctx, key, time.Minute), its error dropped, then the return
RLExpire(p) ==
    /\ rlProc[p].pc = "expire"
    /\ \E storeOk \in BOOLEAN :
         /\ rlStore' = IF storeOk THEN RedisExpire(rlStore) ELSE rlStore
         /\ rlHist' = [rlHist EXCEPT !.admitted = @ + 1, !.storeErr = @ \/ ~storeOk]
    /\ rlProc' = [rlProc EXCEPT ![p] =
                     RLAdmit(@, Remaining(rlProc[p].limit, rlProc[p].newCount))]
    /\ UNCHANGED <<errVars, keyVars, gwVars, srVars, gate, bg, trVars>>

\* Redis drops the key when its TTL runs out: the window rolls over
RLKeyExpires ==
    /\ rlStore.exists /\ rlStore.ttl
    /\ rlStore' = NoKey
    /\ rlHist' = [rlHist EXCEPT !.rolled = TRUE]
    /\ UNCHANGED <<rlProc, errVars, keyVars, gwVars, srVars, gate, bg, trVars>>

(***************************************************************************)
(* Cache: cache.Cache over Redis                                           *)
(***************************************************************************)

\* json.Marshal of a ChatResponse: latency_ms and cost_usd are omitempty
Marshal(resp) ==
    [Model |-> resp.Model, Content |-> resp.Content, Usage |-> resp.Usage]
    @@ (IF resp.LatencyMs # 0 THEN [LatencyMs |-> resp.LatencyMs] ELSE <<>>)
    @@ (IF resp.CostUSD # 0 THEN [CostUSD |-> resp.CostUSD] ELSE <<>>)

\* json.Unmarshal into a fresh ChatResponse: absent fields stay zero
Unmarshal(data) ==
    [Model |-> data.Model, Content |-> data.Content, Usage |-> data.Usage,
     LatencyMs |-> IF "LatencyMs" \in DOMAIN data THEN data.LatencyMs ELSE 0,
     CostUSD |-> IF "CostUSD" \in DOMAIN data THEN data.CostUSD ELSE 0]

\* the entries stored under a key: none or one
Lookup(store, key) == {e \in store : e.key = key}

\* Cache.Get with a store that answers: (resp, err), err = TRUE on a miss
CacheGetResult(store, r) ==
    LET found == Lookup(store, generateCacheKey(r))
    IN IF found = {} THEN [resp |-> NoResp, err |-> TRUE]
       ELSE [resp |-> Unmarshal((CHOOSE e \in found : TRUE).data), err |-> FALSE]

\* Cache.Set with a store that answers: SET key data EX ttl (no expiry when ttl = 0)
CacheSetResult(store, r, resp, ttlSeconds) ==
    {e \in store : e.key # generateCacheKey(r)}
    \cup {[key |-> generateCacheKey(r), data |-> Marshal(resp), ttl |-> ttlSeconds > 0]}

(***************************************************************************)
(* Pricing: DB.GetModelPricing and ChatHandler.calculateCost               *)
(***************************************************************************)

NoRow == [InputPer1k |-> 0, OutputPer1k |-> 0, missing |-> TRUE]

\* model_pricing rows, in micro-dollars per 1k tokens
PricingRow(provider, model) ==
    CASE provider = "openai"    /\ model = GPT4      -> [InputPer1k |-> 30000, OutputPer1k |-> 60000]
      [] provider = "openai"    /\ model = GPT4o     -> [InputPer1k |-> 5000,  OutputPer1k |-> 15000]
      [] provider = "openai"    /\ model = GPT4oMini -> [InputPer1k |-> 150,   OutputPer1k |-> 600]
      [] provider = "openai"    /\ model = GPT35     -> [InputPer1k |-> 500,   OutputPer1k |-> 1500]
      [] provider = "anthropic" /\ model = Opus      -> [InputPer1k |-> 15000, OutputPer1k |-> 75000]
      [] provider = "anthropic" /\ model = Sonnet    -> [InputPer1k |-> 3000,  OutputPer1k |-> 15000]
      [] provider = "anthropic" /\ model = Haiku     -> [InputPer1k |-> 1000,  OutputPer1k |-> 5000]
      [] provider = "google"    /\ model = GemFlash  -> [InputPer1k |-> 100,   OutputPer1k |-> 400]
      [] provider = "google"    /\ model = GemPro    -> [InputPer1k |-> 1250,  OutputPer1k |-> 5000]
      [] OTHER -> NoRow

\* the error of GetModelPricing, which calculateCost hands back
PricingErr(provider, model, dbOk) ==
    IF ~dbOk THEN "database error"
    ELSE IF PricingRow(provider, model) = NoRow THEN "pricing not found" ELSE ""

\* a calculateCost that bills the total token count at the input price
calculateCostOfTotal(provider, model, usage, dbOk) ==
    LET pricing == PricingRow(provider, model)
    IN IF ~dbOk \/ pricing = NoRow THEN 0
       ELSE (usage.TotalTokens * pricing.InputPer1k) \div 1000

\* calculateCost: 0 when the lookup fails (no row, or the database errs)
calculateCost(provider, model, usage, dbOk) ==
    LET pricing == PricingRow(provider, model)
    IN IF ~dbOk \/ pricing = NoRow THEN 0
       ELSE (usage.PromptTokens * pricing.InputPer1k) \div 1000
            + (usage.CompletionTokens * pricing.OutputPer1k) \div 1000

(***************************************************************************)
(* ChatHandler: HandleChatCompletion and handleStreamingChat               *)
(***************************************************************************)

\* requests handled one after another, and the chunks one stream delivers at most
MaxRequests == 2
MaxChunks == 1

GwModels  == {GPT4o, Llama}
GwConfigs == {ProviderNames, {"openai", "google"}}
CacheTTLs == {3600}

\* the requests the handler is given: no optional field, or a temperature
GwRequests ==
    {r \in ChatRequests(GwModels, BOOLEAN, 1..MaxAddr) :
        /\ r.Messages = <<Msg("user", <<"What is 2+2?">>)>>
        /\ r.MaxTokens = Nil /\ r.TopP = Nil
        /\ r.Temperature.val \in {0, 7}}

\* the outcomes of one provider call the handler runs are explored with
GwOutcomesOf(name) ==
    {Success} \cup {e \in ProviderErrors : /\ e.provider = name /\ e.kind = "status"
                                           /\ e.status \in {400, 429} /\ e.body = <<>>}

\* every way Manager.ChatCompletion can return from state m
RECURSIVE MgrFinals(_, _)
MgrFinals(m, cfg) ==
    IF m.pc = "returned" THEN {m}
    ELSE UNION {MgrFinals(MgrStep(m, cfg, o), cfg) : o \in GwOutcomesOf(MgrNextProvider(m, cfg))}

NoRequest == [Model |-> <<>>, Messages |-> <<>>, Temperature |-> Nil, MaxTokens |-> Nil,
              TopP |-> Nil, Stream |-> FALSE]
NoLocals  == [resp |-> NoResp, cacheHit |-> FALSE, providerName |-> "", failoverUsed |-> FALSE,
              cost |-> 0, costErr |-> "", totalTokens |-> 0]
NoOut     == [status |-> 0, body |-> NoResp, cacheHit |-> Absent, costUSD |-> Absent,
              provider |-> Absent, failover |-> Absent, originalProvider |-> Absent,
              frames |-> <<>>]
\* stream: the upstream StreamReader of the request: "none", "open" or "closed"
NoObs     == [cacheReads |-> 0, cacheWrites |-> 0, providerCalls |-> 0, storeErr |-> FALSE,
              logs |-> <<>>, stream |-> "none"]

\* the fields of a request as the caller sent them
ValuesOf(r) ==
    [Model |-> r.Model, Messages |-> r.Messages, Temperature |-> ValueOf(r.Temperature),
     MaxTokens |-> ValueOf(r.MaxTokens), TopP |-> ValueOf(r.TopP), Stream |-> r.Stream]

\* what is remembered of the request handled before the current one
\* fallback: the response, when a fallback served the request
NoSummary == [req |-> ValuesOf(NoRequest), status |-> 0, cacheHit |-> FALSE,
              storeErr |-> FALSE, fallback |-> NoResp]
Summary ==
    [req |-> ValuesOf(req), status |-> out.status, cacheHit |-> loc.cacheHit,
     storeErr |-> obs.storeErr,
     fallback |-> IF out.status = 200 /\ loc.failoverUsed THEN out.body ELSE NoResp]
NoPast == [n |-> 0, last |-> NoSummary, expired |-> FALSE]

\* logRequest: the record handed to the detached db.LogRequest
LogRecord(r, resp, provider, cacheHit, failoverUsed, err) ==
    [Model |-> r.Model, Provider |-> provider, CacheHit |-> cacheHit,
     FailoverUsed |-> failoverUsed,
     CostUSD |-> IF resp = NoResp THEN 0 ELSE resp.CostUSD,
     TotalTokens |-> IF resp = NoResp THEN 0 ELSE resp.Usage.TotalTokens,
     PromptTokens |-> IF resp = NoResp THEN 0 ELSE resp.Usage.PromptTokens,
     CompletionTokens |-> IF resp = NoResp THEN 0 ELSE resp.Usage.CompletionTokens,
     StatusCode |-> IF err = NoErr THEN 200 ELSE 500]

AfterDecodeCacheFirst(r, key) ==
    IF key.CacheEnabled THEN "cacheGet" ELSE IF r.Stream THEN "stream" ELSE "dispatch"

\* lines 51-60 and 72: where a decoded request goes first
AfterDecode(r, key) ==
    IF r.Stream THEN "stream" ELSE IF key.CacheEnabled THEN "cacheGet" ELSE "dispatch"

CacheHitAliased(store, r, resp) ==
    [resp  |-> [resp EXCEPT !.CostUSD = 0],
     store |-> {IF e.key = generateCacheKey(r)
                THEN [e EXCEPT !.data = Marshal([resp EXCEPT !.CostUSD = 0])] ELSE e : e \in store}]

\* lines 62-66: the decoded copy is made free; the store is not touched
CacheHit(store, r, resp) ==
    [resp |-> [resp EXCEPT !.CostUSD = 0], store |-> store]

GwInit ==
    /\ configured \in GwConfigs
    /\ apiKey \in [CacheEnabled : BOOLEAN, CacheTTLSeconds : CacheTTLs]
    /\ cache = {}
    /\ pc = "idle"
    /\ req = NoRequest
    /\ loc = NoLocals
    /\ out = NoOut
    /\ obs = NoObs
    /\ past = NoPast

\* goroutines bound to the context of the request
LogContextOfRequest == "request"

\* lines 221 and 224: go h.db.LogRequest(context.Background(), log) and
\* go h.db.UpdateAPIKeyLastUsed(context.Background(), apiKey.ID)
LogContext == "background"

\* no goroutine yet, no request context yet
BgIdle == [tasks |-> <<>>, reqCtx |-> "none"]
Task(kind) == [kind |-> kind, ctx |-> LogContext, state |-> "running"]

\* the two go statements of logRequest: both goroutines are started and
\* logRequest returns
logRequestGo(b) == [b EXCEPT !.tasks = @ \o <<Task("log"), Task("touch")>>]

\* a handler that answers 500 when the pricing lookup failed
FinishFailsOnPricingErr(l, o) ==
    /\ pc' = "done"
    /\ loc' = l
    /\ out' = IF l.costErr # ""
              THEN [NoOut EXCEPT !.status = 500]
              ELSE [NoOut EXCEPT !.status = 200, !.body = l.resp, !.cacheHit = Some(l.cacheHit),
                            !.costUSD = Some(l.resp.CostUSD), !.provider = Some(l.providerName),
                            !.failover = IF l.failoverUsed THEN Some("true") ELSE Absent]
    /\ obs' = [o EXCEPT !.logs = Append(@, LogRecord(req, l.resp, l.providerName,
                                                     l.cacheHit, l.failoverUsed, NoErr))]
    /\ bg' = logRequestGo(bg)

\* a handler that answers 500 when a cache call of the request failed
FinishFailsOnStoreErr(l, o) ==
    /\ pc' = "done"
    /\ loc' = l
    /\ out' = IF o.storeErr
              THEN [NoOut EXCEPT !.status = 500]
              ELSE [NoOut EXCEPT !.status = 200, !.body = l.resp, !.cacheHit = Some(l.cacheHit),
                            !.costUSD = Some(l.resp.CostUSD), !.provider = Some(l.providerName),
                            !.failover = IF l.failoverUsed THEN Some("true") ELSE Absent]
    /\ obs' = [o EXCEPT !.logs = Append(@, LogRecord(req, l.resp, l.providerName,
                                                     l.cacheHit, l.failoverUsed, NoErr))]
    /\ bg' = logRequestGo(bg)

\* lines 95-109: latency, headers, logRequest, the JSON body
Finish(l, o) ==
    /\ pc' = "done"
    /\ loc' = l
    /\ out' = [NoOut EXCEPT !.status = 200, !.body = l.resp, !.cacheHit = Some(l.cacheHit),
                            !.costUSD = Some(l.resp.CostUSD), !.provider = Some(l.providerName),
                            !.failover = IF l.failoverUsed THEN Some("true") ELSE Absent]
    /\ obs' = [o EXCEPT !.logs = Append(@, LogRecord(req, l.resp, l.providerName,
                                                     l.cacheHit, l.failoverUsed, NoErr))]
    /\ bg' = logRequestGo(bg)

\* lines 34-57 of HandleChatCompletion: the body of one of the requests is
\* decoded, 400 if it does not parse, else on to the cache or the stream
HandlerEnter(requests) ==
    /\ pc \in {"idle", "done"}
    \* a fresh request context; the goroutines followed are those of this request
    /\ bg' = [tasks |-> <<>>, reqCtx |-> "live"]
    /\ loc' = NoLocals
    /\ obs' = NoObs
    /\ \E parsed \in BOOLEAN :
         IF ~parsed
         THEN /\ req' = NoRequest
              /\ out' = [NoOut EXCEPT !.status = 400]
              /\ pc' = "done"
         ELSE /\ req' \in requests
              /\ out' = NoOut
              /\ pc' = AfterDecode(req', apiKey)

\* a request reaches HandleChatCompletion and its body is decoded
Receive ==
    /\ past.n < MaxRequests
    /\ past' = [past EXCEPT !.n = @ + 1, !.last = IF pc = "done" THEN Summary ELSE NoSummary]
    /\ HandlerEnter(GwRequests)
    /\ UNCHANGED <<configured, apiKey, cache, mgr, errVars, keyVars, rlVars, srVars, gate, trVars>>

\* lines 60-67: h.cache.Get; on a hit the response goes out at once
CacheGet ==
    /\ pc = "cacheGet"
    /\ \E storeOk \in BOOLEAN :
         LET got == IF storeOk THEN CacheGetResult(cache, req) ELSE [resp |-> NoResp, err |-> TRUE]
             o   == [obs EXCEPT !.cacheReads = @ + 1, !.storeErr = @ \/ ~storeOk]
         IN IF got.err
            THEN /\ pc' = "dispatch"
                 /\ obs' = o
                 /\ UNCHANGED <<loc, out, cache, bg>>
            ELSE LET hit == CacheHit(cache, req, got.resp)
                 IN /\ cache' = hit.store
                    /\ Finish([loc EXCEPT !.resp = hit.resp, !.cacheHit = TRUE], o)
    /\ UNCHANGED <<configured, apiKey, req, mgr, past, errVars, keyVars, rlVars, srVars, gate, trVars>>

\* a handler that stores the answer to a provider error in the cache
DispatchCachesError ==
    /\ pc = "dispatch"
    /\ \E m \in MgrFinals(MgrEnter(req.Model, configured), configured) :
         LET o == [obs EXCEPT !.providerCalls = @ + Len(m.calls)]
             l == [loc EXCEPT !.resp = m.ret.resp, !.providerName = m.ret.providerName,
                              !.failoverUsed = m.ret.failoverUsed]
         IN /\ loc' = l
            /\ IF m.ret.err # NoErr
               THEN /\ pc' = "done"
                    /\ out' = [NoOut EXCEPT !.status = 500, !.body = m.ret.err]
                    /\ obs' = [o EXCEPT !.logs = Append(@, LogRecord(req, NoResp, l.providerName,
                                                  FALSE, l.failoverUsed, m.ret.err))]
                    /\ bg' = logRequestGo(bg)
                    /\ cache' = IF apiKey.CacheEnabled
                                 THEN CacheSetResult(cache, req,
                                          [Model |-> req.Model, Content |-> <<"error">>,
                                           Usage |-> Usage, LatencyMs |-> 0, CostUSD |-> 0],
                                          apiKey.CacheTTLSeconds)
                                 ELSE cache
               ELSE /\ pc' = "cost"
                    /\ obs' = o
                    /\ out' = out
                    /\ bg' = bg
                    /\ cache' = cache
    /\ UNCHANGED <<configured, apiKey, req, mgr, past, errVars, keyVars, rlVars, srVars, gate, trVars>>

\* a handler that answers a provider error without logging it
DispatchErrorNotLogged ==
    /\ pc = "dispatch"
    /\ \E m \in MgrFinals(MgrEnter(req.Model, configured), configured) :
         LET o == [obs EXCEPT !.providerCalls = @ + Len(m.calls)]
             l == [loc EXCEPT !.resp = m.ret.resp, !.providerName = m.ret.providerName,
                              !.failoverUsed = m.ret.failoverUsed]
         IN /\ loc' = l
            /\ IF m.ret.err # NoErr
               THEN /\ pc' = "done"
                    /\ out' = [NoOut EXCEPT !.status = 500, !.body = m.ret.err]
                    /\ obs' = o
                    /\ bg' = bg
               ELSE /\ pc' = "cost"
                    /\ obs' = o
                    /\ out' = out
                    /\ bg' = bg
    /\ UNCHANGED <<configured, apiKey, cache, req, mgr, past, errVars, keyVars, rlVars, srVars, gate, trVars>>

\* lines 72-79: providerMgr.ChatCompletion(ctx, req), and the 500 on an error
Dispatch ==
    /\ pc = "dispatch"
    /\ \E m \in MgrFinals(MgrEnter(req.Model, configured), configured) :
         LET o == [obs EXCEPT !.providerCalls = @ + Len(m.calls)]
             l == [loc EXCEPT !.resp = m.ret.resp, !.providerName = m.ret.providerName,
                              !.failoverUsed = m.ret.failoverUsed]
         IN /\ loc' = l
            /\ IF m.ret.err # NoErr
               THEN /\ pc' = "done"
                    /\ out' = [NoOut EXCEPT !.status = 500, !.body = m.ret.err]
                    /\ obs' = [o EXCEPT !.logs = Append(@, LogRecord(req, NoResp, l.providerName,
                                                  FALSE, l.failoverUsed, m.ret.err))]
                    /\ bg' = logRequestGo(bg)
               ELSE /\ pc' = "cost"
                    /\ obs' = o
                    /\ out' = out
                    /\ bg' = bg
    /\ UNCHANGED <<configured, apiKey, cache, req, mgr, past, errVars, keyVars, rlVars, srVars, gate, trVars>>

\* lines 82-83: the pricing lookup and resp.CostUSD = cost
Cost ==
    /\ pc = "cost"
    /\ \E dbOk \in BOOLEAN :
         LET cost == calculateCost(loc.providerName, req.Model, loc.resp.Usage, dbOk)
             l    == [loc EXCEPT !.resp.CostUSD = cost, !.cost = cost,
                                 !.costErr = PricingErr(loc.providerName, req.Model, dbOk)]
         IN IF apiKey.CacheEnabled
            THEN /\ pc' = "cacheSet"
                 /\ loc' = l
                 /\ UNCHANGED <<out, obs, bg>>
            ELSE Finish(l, obs)
    /\ UNCHANGED <<configured, apiKey, cache, req, mgr, past, errVars, keyVars, rlVars, srVars, gate, trVars>>

\* lines 86-89: h.cache.Set, its error dropped; then the response
CacheSet ==
    /\ pc = "cacheSet"
    /\ \E storeOk \in BOOLEAN :
         /\ cache' = IF storeOk
                      THEN CacheSetResult(cache, req, loc.resp, apiKey.CacheTTLSeconds)
                      ELSE cache
         /\ Finish(loc, [obs EXCEPT !.cacheWrites = @ + 1, !.storeErr = @ \/ ~storeOk])
    /\ UNCHANGED <<configured, apiKey, req, mgr, past, errVars, keyVars, rlVars, srVars, gate, trVars>>

\* a streaming path that turns to the first fallback on a retryable error
StreamCreateFailover(model, cfg, outcome) ==
    LET p     == GetProvider(model, cfg)
        chain == GetFailoverChain(model, cfg)
    IN IF outcome # Success /\ MgrRetryable(outcome) /\ chain # <<>>
       THEN [calls |-> 2, providerName |-> detectProvider(chain[1]), err |-> NoErr]
       ELSE [calls |-> 1, providerName |-> p.name,
             err |-> IF outcome = Success THEN NoErr ELSE outcome]

\* lines 137-141: provider.ChatCompletionStream of the one provider of the
\* model: the calls made, the provider streaming, the error handed back
StreamCreate(model, cfg, outcome) ==
    [calls |-> 1, providerName |-> GetProvider(model, cfg).name,
     err |-> IF outcome = Success THEN NoErr ELSE outcome]

\* lines 129-141 of handleStreamingChat: GetProvider, ChatCompletionStream
StreamOpen ==
    /\ pc = "stream"
    /\ LET p == GetProvider(req.Model, configured)
       IN IF p.err # NoErr
          THEN /\ pc' = "done"
               /\ out' = [NoOut EXCEPT !.status = 500, !.body = p.err]
               /\ UNCHANGED <<loc, obs>>
          ELSE \E outcome \in GwOutcomesOf(p.name) :
                 LET s == StreamCreate(req.Model, configured, outcome)
                 IN /\ obs' = [obs EXCEPT !.providerCalls = @ + s.calls,
                                         !.stream = IF s.err = NoErr THEN "open" ELSE @]
                    /\ loc' = [loc EXCEPT !.providerName = s.providerName]
                    /\ IF s.err = NoErr
                       THEN pc' = "recv" /\ out' = [NoOut EXCEPT !.status = 200]
                       ELSE pc' = "done" /\ out' = [NoOut EXCEPT !.status = 500, !.body = s.err]
    /\ UNCHANGED <<configured, apiKey, cache, req, mgr, past, errVars, keyVars, rlVars, srVars, gate, bg, trVars>>

\* a loop that breaks on a read error and so goes on to write [DONE]
StreamRecvDoneAfterError ==
    /\ pc = "recv"
    /\ \/ \E withUsage \in BOOLEAN :
            /\ Len(out.frames) < MaxChunks
            /\ out' = [out EXCEPT !.frames = Append(@, "chunk")]
            /\ loc' = [loc EXCEPT !.totalTokens = IF withUsage THEN Usage.TotalTokens ELSE @]
            /\ UNCHANGED <<pc, obs, bg>>
       \/ /\ out' = [out EXCEPT !.frames = @ \o <<"error", "[DONE]">>]
          /\ pc' = "done"
          \* the deferred stream.Close() runs at the return
          /\ obs' = [obs EXCEPT !.stream = "closed"]
          /\ UNCHANGED <<loc, bg>>
       \/ \E dbOk \in BOOLEAN :
            LET usage == [PromptTokens |-> 0, CompletionTokens |-> 0,
                          TotalTokens |-> loc.totalTokens]
                cost  == calculateCost(loc.providerName, req.Model, usage, dbOk)
                resp  == [Model |-> <<>>, Content |-> <<>>, Usage |-> usage,
                          LatencyMs |-> 0, CostUSD |-> cost]
            IN /\ out' = [out EXCEPT !.frames = Append(@, "[DONE]")]
               /\ pc' = "done"
               /\ loc' = [loc EXCEPT !.resp = resp, !.cost = cost,
                                      !.costErr = PricingErr(loc.providerName, req.Model, dbOk)]
               /\ obs' = [obs EXCEPT !.stream = "closed",
                                      !.logs = Append(@, LogRecord(req, resp, loc.providerName,
                                                                  FALSE, FALSE, NoErr))]
               /\ bg' = logRequestGo(bg)
    /\ UNCHANGED <<configured, apiKey, cache, req, mgr, past, errVars, keyVars, rlVars, srVars, gate, trVars>>

\* lines 146-178: one stream.Recv and what the loop does with it
StreamRecv ==
    /\ pc = "recv"
    /\ \/ \E withUsage \in BOOLEAN :
            /\ Len(out.frames) < MaxChunks
            /\ out' = [out EXCEPT !.frames = Append(@, "chunk")]
            /\ loc' = [loc EXCEPT !.totalTokens = IF withUsage THEN Usage.TotalTokens ELSE @]
            /\ UNCHANGED <<pc, obs, bg>>
       \/ /\ out' = [out EXCEPT !.frames = Append(@, "error")]
          /\ pc' = "done"
          \* the deferred stream.Close() runs at the return
          /\ obs' = [obs EXCEPT !.stream = "closed"]
          /\ UNCHANGED <<loc, bg>>
       \/ \E dbOk \in BOOLEAN :
            LET usage == [PromptTokens |-> 0, CompletionTokens |-> 0,
                          TotalTokens |-> loc.totalTokens]
                cost  == calculateCost(loc.providerName, req.Model, usage, dbOk)
                resp  == [Model |-> <<>>, Content |-> <<>>, Usage |-> usage,
                          LatencyMs |-> 0, CostUSD |-> cost]
            IN /\ out' = [out EXCEPT !.frames = Append(@, "[DONE]")]
               /\ pc' = "done"
               /\ loc' = [loc EXCEPT !.resp = resp, !.cost = cost,
                                      !.costErr = PricingErr(loc.providerName, req.Model, dbOk)]
               /\ obs' = [obs EXCEPT !.stream = "closed",
                                      !.logs = Append(@, LogRecord(req, resp, loc.providerName,
                                                                  FALSE, FALSE, NoErr))]
               /\ bg' = logRequestGo(bg)
    /\ UNCHANGED <<configured, apiKey, cache, req, mgr, past, errVars, keyVars, rlVars, srVars, gate, trVars>>

\* Redis drops a cache entry whose TTL ran out
CacheExpires ==
    /\ \E e \in cache : e.ttl /\ cache' = cache \ {e}
    /\ past' = [past EXCEPT !.expired = TRUE]
    /\ UNCHANGED <<configured, apiKey, pc, req, loc, mgr, out, obs, errVars, keyVars, rlVars, srVars, gate, bg, trVars>>

(***************************************************************************)
(* The route POST /v1/chat/completions: AuthMiddleware, then               *)
(* RateLimitMiddleware, then HandleChatCompletion                          *)
(***************************************************************************)

\* requests that go through the chain, numbered in the order they arrive
MaxGate == 2
GateProcs == 1..MaxGate

\* the Authorization header, split at the spaces
AuthHeaders ==
    {<<>>, <<"Basic", "sk-live">>, <<"Bearer", "sk-live", "x">>, <<"Bearer", "sk-gone">>,
     <<"Bearer", "sk-live">>}

\* db.GetAPIKey: the row of an active key, else an error
GetAPIKeyOk(rawKey) == rawKey = "sk-live"

\* AuthMiddleware up to the call of next: 0 when the request goes on
AuthStatus(header) ==
    IF header = <<>> THEN 401
    ELSE IF Len(header) # 2 \/ header[1] # "Bearer" THEN 401
         ELSE IF ~GetAPIKeyOk(header[2]) THEN 401 ELSE 0

\* the requests the route is explored with
GateRequests ==
    {r \in ChatRequests({GPT4o}, BOOLEAN, {1}) :
        /\ r.Messages = <<Msg("user", <<"What is 2+2?">>)>>
        /\ r.MaxTokens = Nil /\ r.TopP = Nil /\ r.Temperature = Nil}

GateIdle == [stage |-> "idle", status |-> 0]
GateOff == gate = [p \in Procs |-> GateIdle]
BgOff == bg = BgIdle
TrOff == trIn = NoRequest /\ trOut = <<>>

\* r.Use(mw.AuthMiddleware): 401, or on to RateLimitMiddleware, which reads
\* the key's limit before it calls CheckRateLimit
AuthMiddleware(p) ==
    /\ gate[p].stage = "idle"
    /\ \A q \in GateProcs : q < p => gate[q].stage # "idle"
    /\ \E header \in AuthHeaders :
         IF AuthStatus(header) # 0
         THEN /\ gate' = [gate EXCEPT ![p] = [stage |-> "rejected",
                                              status |-> AuthStatus(header)]]
              /\ UNCHANGED <<rlProc, rlHist>>
         ELSE /\ gate' = [gate EXCEPT ![p] = [stage |-> "ratelimit", status |-> 0]]
              /\ rlProc' = [rlProc EXCEPT ![p] = [RLIdle EXCEPT !.pc = "get",
                                 !.limit = EffectiveLimit(rlHist.rateLimitPerMinute)]]
              /\ rlHist' = [rlHist EXCEPT !.overlap = @ \/ \E q \in Procs : InFlight(q)]
    /\ UNCHANGED <<rlStore, errVars, keyVars, gwVars, srVars, bg, trVars>>

\* RateLimitMiddleware calls next.ServeHTTP: the request enters
\* HandleChatCompletion (the handler is run for one request at a time)
GateServe(p) ==
    /\ gate[p].stage = "ratelimit"
    /\ rlProc[p].pc = "done" /\ rlProc[p].passed
    /\ HandlerEnter(GateRequests)
    /\ gate' = [q \in Procs |->
                  IF q = p THEN [gate[q] EXCEPT !.stage = "handler"]
                  ELSE IF gate[q].stage = "handler" THEN [gate[q] EXCEPT !.stage = "served"]
                       ELSE gate[q]]
    /\ UNCHANGED <<configured, apiKey, cache, mgr, past, rlVars, errVars, keyVars, srVars, trVars>>

\* the state of the route before the first request
GateInit ==
    /\ gate = [p \in Procs |-> GateIdle]
    /\ rlStore = NoKey
    /\ rlProc = [p \in Procs |-> RLIdle]
    /\ rlHist \in [rateLimitPerMinute : {1, 2}, admitted : {0}, overlap : {FALSE},
                    storeErr : {FALSE}, rolled : {FALSE}]
    /\ configured = {"openai"}
    /\ apiKey = [CacheEnabled |-> TRUE, CacheTTLSeconds |-> 3600]
    /\ cache = {} /\ pc = "idle" /\ req = NoRequest /\ loc = NoLocals
    /\ out = NoOut /\ obs = NoObs /\ past = NoPast
    /\ mgr = MgrIdle

(***************************************************************************)
(* Background work: the goroutines of logRequest and the request context   *)
(***************************************************************************)

\* a request of the caller reaches the handler
BgReceive ==
    /\ past.n < MaxRequests
    /\ past' = [past EXCEPT !.n = @ + 1]
    /\ HandlerEnter(GateRequests)
    /\ UNCHANGED <<configured, apiKey, cache, mgr, errVars, keyVars, rlVars, srVars, gate, trVars>>

\* the context of the request is cancelled: the client went away, or, after
\* the handler returned, the server ended the request. Work bound to that
\* context is cancelled with it.
RequestCtxDone ==
    /\ bg.reqCtx = "live"
    /\ bg' = [reqCtx |-> "cancelled",
              tasks  |-> [i \in 1..Len(bg.tasks) |->
                            IF bg.tasks[i].ctx = "request" /\ bg.tasks[i].state = "running"
                            THEN [bg.tasks[i] EXCEPT !.state = "cancelled"]
                            ELSE bg.tasks[i]]]
    /\ UNCHANGED <<gwVars, errVars, keyVars, rlVars, srVars, gate, trVars>>

\* db.LogRequest or db.UpdateAPIKeyLastUsed returns in its goroutine: the
\* statement was executed, or the database gave an error (which nobody reads)
BgComplete ==
    /\ \E i \in 1..Len(bg.tasks) :
         /\ bg.tasks[i].state = "running"
         /\ \E ok \in BOOLEAN :
              bg' = [bg EXCEPT !.tasks[i].state = IF ok THEN "ok" ELSE "failed"]
    /\ UNCHANGED <<gwVars, errVars, keyVars, rlVars, srVars, gate, trVars>>

\* the handler of a caller with caching enabled, one provider configured
BgInit ==
    /\ bg = BgIdle
    /\ configured = {"openai"}
    /\ apiKey = [CacheEnabled |-> TRUE, CacheTTLSeconds |-> 3600]
    /\ cache = {} /\ pc = "idle" /\ req = NoRequest /\ loc = NoLocals
    /\ out = NoOut /\ obs = NoObs /\ past = NoPast
    /\ mgr = MgrIdle

(***************************************************************************)
(* Stream readers: AnthropicStreamReader.Recv, GeminiStreamReader.Recv,    *)
(* and the loop of handleStreamingChat that writes their chunks            *)
(***************************************************************************)

\* raw lines one upstream stream delivers at most
MaxLines == 3

\* json.Unmarshal of the payload of an Anthropic data line into a map, and
\* what Recv reads from it: event["type"], delta["text"]
AnthropicJSON(payload) ==
    CASE payload = "{message_start}"       -> [ok |-> TRUE, type |-> "message_start", text |-> ""]
      [] payload = "{ping}"                -> [ok |-> TRUE, type |-> "ping", text |-> ""]
      [] payload = "{content_block_start}" -> [ok |-> TRUE, type |-> "content_block_start", text |-> ""]
      [] payload = "{content_block_stop}"  -> [ok |-> TRUE, type |-> "content_block_stop", text |-> ""]
      [] payload = "{delta text=A}"        -> [ok |-> TRUE, type |-> "content_block_delta", text |-> "A"]
      [] payload = "{delta text=B}"        -> [ok |-> TRUE, type |-> "content_block_delta", text |-> "B"]
      [] payload = "{delta no text}"       -> [ok |-> TRUE, type |-> "content_block_delta", text |-> ""]
      [] payload = "{message_delta usage}" -> [ok |-> TRUE, type |-> "message_delta", text |-> ""]
      [] payload = "{message_stop}"        -> [ok |-> TRUE, type |-> "message_stop", text |-> ""]
      [] OTHER                             -> [ok |-> FALSE, type |-> "", text |-> ""]

\* json.Unmarshal of the payload of a Gemini data line into a GeminiResponse
GeminiJSON(payload) ==
    CASE payload = "{candidate text=A}" ->
             [ok |-> TRUE, candidates |-> 1, role |-> "model", text |-> "A",
              finishReason |-> "", totalTokenCount |-> 0]
      [] payload = "{candidate text=B STOP usage}" ->
             [ok |-> TRUE, candidates |-> 1, role |-> "model", text |-> "B",
              finishReason |-> "STOP", totalTokenCount |-> 30]
      [] payload = "{usage only}" ->
             [ok |-> TRUE, candidates |-> 0, role |-> "", text |-> "",
              finishReason |-> "", totalTokenCount |-> 30]
      [] payload = "{}" ->
             [ok |-> TRUE, candidates |-> 0, role |-> "", text |-> "",
              finishReason |-> "", totalTokenCount |-> 0]
      [] OTHER ->
             [ok |-> FALSE, candidates |-> 0, role |-> "", text |-> "",
              finishReason |-> "", totalTokenCount |-> 0]

\* a line after strings.TrimSpace, as its tokens
BlankLine == <<>>
EventLine == <<"event:", " ", "name">>
CommentLine == <<":", " ", "keep-alive">>
DataLine(payload) == <<"data:", " ", payload>>
DataLineNoSpace(payload) == <<"data:", payload>>

\* strings.TrimSpace(strings.TrimPrefix(line, "data:"))
DataStr(line) == line[Len(line)]

AnthropicLines ==
    {BlankLine, EventLine, CommentLine, DataLineNoSpace("{delta text=A}")}
    \cup {DataLine(p) : p \in {"{message_start}", "{ping}", "{delta text=A}", "{delta text=B}",
                               "{delta no text}", "{message_delta usage}", "{bad",
                               "{content_block_start}", "{content_block_stop}",
                               "{message_stop}"}}

GeminiLines ==
    {BlankLine, CommentLine, DataLineNoSpace("{candidate text=A}")}
    \cup {DataLine(p) : p \in {"{candidate text=A}", "{candidate text=B STOP usage}",
                               "{usage only}", "{}", "{bad"}}

\* openai.ChatCompletionStreamResponse, as far as the readers fill it
NoChunk == [choices |-> 0, role |-> "", content |-> "", finishReason |-> "", usage |-> 0]

\* what one Recv returns: a chunk made from line src, or the read error met
\* at the end of the lines
RecvChunk(chunk, src) == [err |-> FALSE, chunk |-> chunk, src |-> src, pos |-> src + 1]
RecvErr(pos) == [err |-> TRUE, chunk |-> NoChunk, src |-> 0, pos |-> pos]

\* a reader that hands back a chunk for every event that parses
RECURSIVE AnthropicRecvEveryEvent(_, _)
AnthropicRecvEveryEvent(lines, pos) ==
    IF pos > Len(lines) THEN RecvErr(pos)
    ELSE LET line == lines[pos]
         IN IF line = BlankLine \/ HasPrefix(line, <<"event:">>)
            THEN AnthropicRecvEveryEvent(lines, pos + 1)
            ELSE IF HasPrefix(line, <<"data:">>)
                 THEN LET event == AnthropicJSON(DataStr(line))
                      IN IF ~event.ok THEN AnthropicRecvEveryEvent(lines, pos + 1)
                         ELSE IF event.type = "content_block_delta" /\ event.text # ""
                              THEN RecvChunk([NoChunk EXCEPT !.choices = 1, !.content = event.text], pos)
                              ELSE IF event.type = "message_start"
                                   THEN RecvChunk([NoChunk EXCEPT !.choices = 1, !.role = "assistant"], pos)
                                   ELSE RecvChunk(NoChunk, pos)
                 ELSE AnthropicRecvEveryEvent(lines, pos + 1)

\* a reader that gives up on a data line it cannot parse
RECURSIVE AnthropicRecvStrict(_, _)
AnthropicRecvStrict(lines, pos) ==
    IF pos > Len(lines) THEN RecvErr(pos)
    ELSE LET line == lines[pos]
         IN IF line = BlankLine \/ HasPrefix(line, <<"event:">>)
            THEN AnthropicRecvStrict(lines, pos + 1)
            ELSE IF HasPrefix(line, <<"data:">>)
                 THEN LET event == AnthropicJSON(DataStr(line))
                      IN IF ~event.ok THEN RecvErr(pos + 1)
                         ELSE IF event.type = "content_block_delta" /\ event.text # ""
                              THEN RecvChunk([NoChunk EXCEPT !.choices = 1, !.content = event.text], pos)
                              ELSE IF event.type = "message_start"
                                   THEN RecvChunk([NoChunk EXCEPT !.choices = 1, !.role = "assistant"], pos)
                                   ELSE AnthropicRecvStrict(lines, pos + 1)
                 ELSE AnthropicRecvStrict(lines, pos + 1)

\* AnthropicStreamReader.Recv from line pos on
RECURSIVE AnthropicRecv(_, _)
AnthropicRecv(lines, pos) ==
    IF pos > Len(lines) THEN RecvErr(pos)
    ELSE LET line == lines[pos]
         IN IF line = BlankLine \/ HasPrefix(line, <<"event:">>)
            THEN AnthropicRecv(lines, pos + 1)
            ELSE IF HasPrefix(line, <<"data:">>)
                 THEN LET event == AnthropicJSON(DataStr(line))
                      IN IF ~event.ok THEN AnthropicRecv(lines, pos + 1)
                         ELSE IF event.type = "content_block_delta" /\ event.text # ""
                              THEN RecvChunk([NoChunk EXCEPT !.choices = 1, !.content = event.text], pos)
                              ELSE IF event.type = "message_start"
                                   THEN RecvChunk([NoChunk EXCEPT !.choices = 1, !.role = "assistant"], pos)
                                   ELSE AnthropicRecv(lines, pos + 1)
                 ELSE AnthropicRecv(lines, pos + 1)

\* GeminiStreamReader.convertChunkToOpenAI
convertChunkToOpenAI(resp) ==
    [choices      |-> IF resp.candidates > 0 THEN 1 ELSE 0,
     role         |-> IF resp.candidates > 0 /\ resp.role # "" THEN "assistant" ELSE "",
     content      |-> IF resp.candidates > 0 THEN resp.text ELSE "",
     finishReason |-> IF resp.candidates > 0 /\ resp.finishReason # "" THEN "stop" ELSE "",
     usage        |-> IF resp.totalTokenCount > 0 THEN resp.totalTokenCount ELSE 0]

\* GeminiStreamReader.Recv from line pos on
RECURSIVE GeminiRecv(_, _)
GeminiRecv(lines, pos) ==
    IF pos > Len(lines) THEN RecvErr(pos)
    ELSE LET line == lines[pos]
         IN IF line = BlankLine THEN GeminiRecv(lines, pos + 1)
            ELSE IF HasPrefix(line, <<"data:", " ">>)
                 THEN LET geminiResp == GeminiJSON(DataStr(line))
                      IN IF ~geminiResp.ok THEN GeminiRecv(lines, pos + 1)
                         ELSE RecvChunk(convertChunkToOpenAI(geminiResp), pos)
                 ELSE GeminiRecv(lines, pos + 1)

\* stream.Recv() of the reader ChatCompletionStream returned
Recv(provider, lines, pos) ==
    IF provider = "anthropic" THEN AnthropicRecv(lines, pos) ELSE GeminiRecv(lines, pos)

\* what the loop writes to the client
ChunkFrame(chunk, src) == [kind |-> "chunk", chunk |-> chunk, src |-> src]
ErrorFrame == [kind |-> "error", chunk |-> NoChunk, src |-> 0]
DoneFrame == [kind |-> "[DONE]", chunk |-> NoChunk, src |-> 0]

SRIdle == [pc |-> "idle", pos |-> 1, frames |-> <<>>, totalTokens |-> 0]
SROff == srIn = [provider |-> "", lines |-> <<>>, end |-> "eof"] /\ sr = SRIdle

\* a stream was created: the lines it will deliver and how its body ends
SRInit ==
    /\ srIn \in [provider : {"anthropic"}, lines : SeqsUpTo(AnthropicLines, MaxLines),
                  end : {"eof", "reset"}]
               \cup [provider : {"google"}, lines : SeqsUpTo(GeminiLines, MaxLines),
                      end : {"eof", "reset"}]
    /\ sr = [SRIdle EXCEPT !.pc = "recv"]

\* part_004 146-170: one pass of the loop over stream.Recv, and the [DONE]
StreamLoop ==
    /\ sr.pc = "recv"
    /\ LET r == Recv(srIn.provider, srIn.lines, sr.pos)
       IN IF r.err
          THEN IF srIn.end = "eof"
               THEN sr' = [sr EXCEPT !.pc = "done", !.pos = r.pos,
                                     !.frames = Append(@, DoneFrame)]
               ELSE sr' = [sr EXCEPT !.pc = "done", !.pos = r.pos,
                                     !.frames = Append(@, ErrorFrame)]
          ELSE sr' = [sr EXCEPT !.pos = r.pos,
                                !.frames = Append(@, ChunkFrame(r.chunk, r.src)),
                                !.totalTokens = IF r.chunk.usage # 0 THEN r.chunk.usage ELSE @]
    /\ UNCHANGED <<srIn, gate, errVars, keyVars, rlVars, gwVars, bg, trVars>>

(***************************************************************************)
(* Specifications                                                          *)
(***************************************************************************)

ErrIdle == errIn = NoErr /\ errOut = [called |-> FALSE, retryable |-> FALSE]
KeyIdle == keyIn = <<NoRequest, NoRequest>> /\ keyOut = <<>>
RLOff   == rlStore = NoKey /\ rlProc = [p \in Procs |-> RLIdle]
           /\ rlHist = [rateLimitPerMinute |-> 0, admitted |-> 0, overlap |-> FALSE,
                        storeErr |-> FALSE, rolled |-> FALSE]
GwOff   == /\ configured = {} /\ apiKey = [CacheEnabled |-> FALSE, CacheTTLSeconds |-> 0]
           /\ cache = {} /\ pc = "idle" /\ req = NoRequest /\ loc = NoLocals
           /\ out = NoOut /\ obs = NoObs /\ past = NoPast
           /\ mgr = MgrIdle

\* the chat handler, one request after another
Init == GwInit /\ mgr = MgrIdle /\ ErrIdle /\ KeyIdle /\ RLOff /\ SROff /\ GateOff /\ BgOff /\ TrOff
Next ==
    \/ Receive
    \/ CacheGet
    \/ Dispatch
    \/ Cost
    \/ CacheSet
    \/ StreamOpen
    \/ StreamRecv
    \/ CacheExpires
Spec == Init /\ [][Next]_vars

\* Manager.ChatCompletion, one call, provider call by provider call
InitMgr ==
    /\ MgrInit /\ ErrIdle /\ KeyIdle /\ RLOff /\ SROff /\ GateOff /\ BgOff /\ TrOff
    /\ apiKey = [CacheEnabled |-> FALSE, CacheTTLSeconds |-> 0]
    /\ cache = {} /\ pc = "idle" /\ req = NoRequest /\ loc = NoLocals
    /\ out = NoOut /\ obs = NoObs /\ past = NoPast
NextMgr ==
    \/ MgrCall
    \/ MgrPrimary
    \/ MgrFallback
SpecMgr == InitMgr /\ [][NextMgr]_vars

\* the rate limiter, the requests of one caller running concurrently
InitRL == RLInit /\ ErrIdle /\ KeyIdle /\ GwOff /\ SROff /\ GateOff /\ BgOff /\ TrOff
NextRL ==
    \/ \E p \in Procs : RLStart(p)
    \/ \E p \in Procs : RLGet(p)
    \/ \E p \in Procs : RLSet(p)
    \/ \E p \in Procs : RLIncr(p)
    \/ \E p \in Procs : RLExpire(p)
    \/ RLKeyExpires
SpecRL == InitRL /\ [][NextRL]_vars

\* isRetryableError on every error a Provider Client builds
InitErr == ErrInit /\ KeyIdle /\ RLOff /\ GwOff /\ SROff /\ GateOff /\ BgOff /\ TrOff
NextErr == Classify
SpecErr == InitErr /\ [][NextErr]_vars

\* generateCacheKey on two requests
InitKey == KeyInit /\ ErrIdle /\ RLOff /\ GwOff /\ SROff /\ GateOff /\ BgOff /\ TrOff
NextKey == Fingerprint
SpecKey == InitKey /\ [][NextKey]_vars

\* the route: requests of one caller through authentication, the rate
\* limiter and the handler
InitGate == GateInit /\ ErrIdle /\ KeyIdle /\ SROff /\ BgOff /\ TrOff
NextGate ==
    \/ \E p \in GateProcs : AuthMiddleware(p)
    \/ \E p \in GateProcs : RLGet(p)
    \/ \E p \in GateProcs : RLSet(p)
    \/ \E p \in GateProcs : RLIncr(p)
    \/ \E p \in GateProcs : RLExpire(p)
    \/ RLKeyExpires
    \/ \E p \in GateProcs : GateServe(p)
    \/ CacheGet
    \/ Dispatch
    \/ Cost
    \/ CacheSet
    \/ StreamOpen
    \/ StreamRecv
SpecGate == InitGate /\ [][NextGate]_vars

\* the handler with the goroutines it starts and the request context
InitBg == BgInit /\ ErrIdle /\ KeyIdle /\ RLOff /\ SROff /\ GateOff /\ TrOff
NextBg ==
    \/ BgReceive
    \/ CacheGet
    \/ Dispatch
    \/ Cost
    \/ CacheSet
    \/ StreamOpen
    \/ StreamRecv
    \/ RequestCtxDone
    \/ BgComplete
SpecBg == InitBg /\ [][NextBg]_vars

\* the request translation of the three Provider Clients
InitTr == TrInit /\ ErrIdle /\ KeyIdle /\ RLOff /\ GwOff /\ SROff /\ GateOff /\ BgOff
NextTr == Translate
SpecTr == InitTr /\ [][NextTr]_vars

\* the streaming loop over one provider's stream reader
InitStream == SRInit /\ ErrIdle /\ KeyIdle /\ RLOff /\ GwOff /\ GateOff /\ BgOff /\ TrOff
NextStream == StreamLoop
SpecStream == InitStream /\ [][NextStream]_vars

(***************************************************************************)
(* Properties of Manager.ChatCompletion (SpecMgr)                          *)
(***************************************************************************)

\* the primary call failed with an error isRetryableError accepts
PrimaryFailedRetryable ==
    /\ mgr.pc \in {"fallback", "returned"}
    /\ mgr.primaryErr # NoErr
    /\ MgrRetryable(mgr.primaryErr)

Unroutable ==
    /\ mgr.pc # "idle"
    /\ \/ detectProvider(mgr.originalModel) = ""
       \/ detectProvider(mgr.originalModel) \notin configured

\* C11: a request whose model has no recognised prefix, or whose provider is
\* not configured, makes ChatCompletion return at once the routing error
\* (unknown model / provider not configured) with failoverUsed = false and an
\* empty provider name, without any provider call, primary or fallback.
C11_RoutingFailureReturnsAtOnce ==
    Unroutable =>
        /\ mgr.pc = "returned"
        /\ mgr.calls = <<>>
        /\ mgr.ret = Return(NoResp, "", FALSE,
                            IF detectProvider(mgr.originalModel) = ""
                            THEN ErrUnknownModel(mgr.originalModel)
                            ELSE ErrNotConfigured(detectProvider(mgr.originalModel)))

\* the provider of the model is not configured though a fallback's is
C11_Witness ==
    /\ Unroutable
    /\ detectProvider(mgr.originalModel) # ""
    /\ GetFailoverChain(mgr.originalModel, configured) # <<>>
    /\ mgr.ret.err = ErrNotConfigured(detectProvider(mgr.originalModel))

\* the primary failed retryably and no call of the failover chain succeeded
Exhausted ==
    /\ PrimaryFailedRetryable
    /\ mgr.pc = "returned"
    /\ \A i \in 1..Len(mgr.calls) : ~mgr.calls[i].ok

C3_ClassifiedByFailureClass ==
    errOut.called => (errOut.retryable <=> RetryableClass(errIn))

\* a 4xx other than 429 whose body mentions a timeout was classified
C3_Witness ==
    /\ errOut.called
    /\ errIn.kind = "status" /\ errIn.status = 400
    /\ Contains(errIn.body, <<"timeout">>)

(***************************************************************************)
(* Properties of the rate limiter (SpecRL)                                 *)
(***************************************************************************)

\* C4: inside one window and with a store that answers every command, the
\* number of requests CheckRateLimit admits is at most the caller's limit,
\* however the store commands of concurrent requests interleave.
C4_AdmittedAtMostLimit ==
    (~rlHist.rolled /\ ~rlHist.storeErr) =>
        rlHist.admitted <= EffectiveLimit(rlHist.rateLimitPerMinute)

\* two requests were in flight at once
C4_Witness ==
    /\ rlHist.overlap /\ ~rlHist.rolled /\ ~rlHist.storeErr
    /\ \A p \in Procs : rlProc[p].pc = "done"

\* every request so far carried the caller's key
AllKeyed == \A q \in Procs : rlProc[q].hasKey

\* requests of the caller arrive one after another, the store answers, the
\* window stays
SequentialWindow ==
    /\ rlHist.rateLimitPerMinute > 0
    /\ AllKeyed
    /\ ~rlHist.overlap /\ ~rlHist.storeErr /\ ~rlHist.rolled

\* C5: for a limit L > 0, requests issued one after another inside one window
\* without store error: each of the requests 1..L is passed on (no 429, no
\* Retry-After), and request L+1 is answered 429 with Retry-After and is not
\* passed on.
C5_SequentialLimit ==
    SequentialWindow =>
        \A p \in Procs : rlProc[p].pc = "done" =>
            /\ p <= rlHist.rateLimitPerMinute =>
                 /\ rlProc[p].passed
                 /\ rlProc[p].status # 429
                 /\ rlProc[p].headers.retryAfter = Absent
            /\ p = rlHist.rateLimitPerMinute + 1 =>
                 /\ ~rlProc[p].passed
                 /\ rlProc[p].status = 429
                 /\ rlProc[p].headers.retryAfter = Some(60)

\* request L+1 of a caller with limit L = MaxLimit has been answered
C5_Witness ==
    /\ SequentialWindow
    /\ rlHist.rateLimitPerMinute = MaxLimit
    /\ rlProc[MaxLimit + 1].pc = "done"
    /\ rlProc[MaxLimit + 1].status = 429

\* C6: whenever no request is inside CheckRateLimit, the rate-limit key, if
\* it exists, carries a TTL (so the window rolls over and a rejected caller
\* is admitted again).
C6_KeyCarriesTTL ==
    ((\A p \in Procs : ~InFlight(p)) /\ rlStore.exists) => rlStore.ttl

\* the key was recreated by INCR after it expired under a request in flight
C6_Witness ==
    /\ rlHist.rolled
    /\ \E p \in Procs : rlProc[p].pc = "expire"
    /\ rlStore.exists /\ ~rlStore.ttl

\* C19: with requests one after another in one window and no store error,
\* for the effective limit L: the k-th request, k <= L, is answered with
\* X-RateLimit-Limit = L and X-RateLimit-Remaining = L - k, a request beyond
\* the limit with X-RateLimit-Remaining = 0; and in every execution a
\* reported remaining is never negative.
C19_RemainingCountsDown ==
    LET L == EffectiveLimit(rlHist.rateLimitPerMinute)
    IN \A p \in Procs : rlProc[p].pc = "done" =>
         /\ rlProc[p].headers.remaining # Absent => rlProc[p].headers.remaining[1] >= 0
         /\ (AllKeyed /\ ~rlHist.overlap /\ ~rlHist.storeErr /\ ~rlHist.rolled) =>
               /\ rlProc[p].headers.limit = Some(L)
               /\ rlProc[p].headers.remaining = Some(IF p <= L THEN L - p ELSE 0)
               /\ rlProc[p].status = 429 <=> p > L

\* a caller used up its window request by request and was then rejected
C19_Witness ==
    /\ AllKeyed /\ ~rlHist.overlap /\ ~rlHist.storeErr /\ ~rlHist.rolled
    /\ rlHist.rateLimitPerMinute = MaxLimit
    /\ \A p \in 1..(MaxLimit + 1) : rlProc[p].pc = "done"
    /\ rlProc[1].headers.remaining = Some(MaxLimit - 1)
    /\ rlProc[MaxLimit].headers.remaining = Some(0)
    /\ rlProc[MaxLimit + 1].status = 429

(***************************************************************************)
(* Properties of generateCacheKey (SpecKey)                                *)
(***************************************************************************)

\* C7: two requests with equal model, equal messages and equal temperature,
\* max_tokens and top_p (absent in both, or present with the same value)
\* get the same cache key, wherever their optional fields are allocated.
C7_EqualValuesEqualKey ==
    (keyOut # <<>> /\ SameRequest(keyIn[1], keyIn[2])) => keyOut[1] = keyOut[2]

\* equal requests whose temperatures live at different addresses were keyed
C7_Witness ==
    /\ keyOut # <<>>
    /\ SameRequest(keyIn[1], keyIn[2])
    /\ ~IsNil(keyIn[1].Temperature)
    /\ keyIn[1].Temperature.addr # keyIn[2].Temperature.addr

(***************************************************************************)
(* Properties of the chat handler (Spec)                                   *)
(***************************************************************************)

\* the errors the provider of the requested model may answer with
PrimaryErrors == GwOutcomesOf(detectProvider(req.Model)) \ {Success}

\* C14: a streaming request calls no provider but the one of the requested
\* model, at most once; when the stream cannot be created the client gets a
\* 500 carrying the routing error or that provider's own error, retryable or
\* not, and a stream that was opened ends in [DONE] or in an error frame.
C14_StreamNeverFailsOver ==
    req.Stream =>
        /\ obs.providerCalls <= 1
        /\ loc.providerName \in {"", detectProvider(req.Model)}
        /\ pc = "done" =>
              \/ /\ out.status = 500 /\ obs.providerCalls = 0
                 /\ out.body = GetProvider(req.Model, configured).err
              \/ /\ out.status = 500 /\ obs.providerCalls = 1
                 /\ out.body \in PrimaryErrors
              \/ /\ out.status = 200 /\ obs.providerCalls = 1
                 /\ out.frames # <<>>
                 /\ out.frames[Len(out.frames)] \in {"[DONE]", "error"}

\* a stream whose creation failed with a retryable error though a fallback
\* of the model was configured
C14_Witness ==
    /\ req.Stream /\ pc = "done"
    /\ out.status = 500
    /\ out.body \in PrimaryErrors
    /\ MgrRetryable(out.body)
    /\ GetFailoverChain(req.Model, configured) # <<>>

\* C15: a non-streaming response served by a fallback carries X-Failover:
\* true, X-Original-Provider naming the provider of the requested model and
\* X-Provider naming the serving provider; one served without failover
\* carries no X-Failover.
C15_FailoverHeaders ==
    (pc = "done" /\ ~req.Stream /\ out.status = 200) =>
        IF loc.failoverUsed
        THEN /\ out.failover = Some("true")
             /\ out.originalProvider = Some(detectProvider(req.Model))
             /\ out.provider = Some(loc.providerName)
        ELSE out.failover = Absent

\* a response came from a fallback
C15_Witness ==
    /\ pc = "done" /\ ~req.Stream /\ out.status = 200
    /\ loc.failoverUsed
    /\ out.failover = Some("true")

\* the request failed for a reason the client can correct: a model name no
\* provider knows, or an upstream 4xx other than 429
ClientCorrectable ==
    /\ pc = "done"
    /\ out.body # NoResp
    /\ \/ out.body.kind = "unknown_model"
       \/ /\ out.body.kind = "status"
          /\ out.body.status >= 400 /\ out.body.status < 500 /\ out.body.status # 429

\* C16: a request that fails for a client-correctable reason is not answered
\* with status 500.
C16_ClientErrorsAreNot500 ==
    ClientCorrectable => out.status # 500

\* a request for a model of unknown prefix has been answered
C16_Witness ==
    /\ pc = "done"
    /\ detectProvider(req.Model) = ""
    /\ req # NoRequest

C17_Step ==
    /\ (pc = "cacheGet" /\ pc' \notin {"cacheGet", "done"}) =>
          /\ pc' = "dispatch"
          /\ loc' = loc /\ out' = out /\ cache' = cache
    /\ (pc = "cacheSet" /\ pc' # "cacheSet") =>
          /\ pc' = "done"
          /\ out'.status = 200
          /\ out'.body = loc.resp
          /\ out'.costUSD = Some(loc.resp.CostUSD)

\* C17: a cache read that does not return an entry (store error or missing
\* key alike) sends the request on to the provider call with nothing else
\* changed, and whatever the cache write does, the provider's response
\* goes out with status 200, unchanged.
C17_CacheFailuresNeverFail == [][C17_Step]_vars

\* a request answered 200 though its cache read and its cache write failed
C17_Witness ==
    /\ pc = "done" /\ out.status = 200
    /\ obs.storeErr
    /\ obs.cacheReads = 1 /\ obs.cacheWrites = 1
    /\ cache = {}

\* the request just answered repeats the one before it, which a provider
\* served; caching is on, the store answered, nothing expired
RepeatOfServedRequest ==
    /\ pc = "done"
    /\ past.n >= 2
    /\ apiKey.CacheEnabled
    /\ ~req.Stream
    /\ ValuesOf(req) = past.last.req
    /\ past.last.status = 200 /\ ~past.last.cacheHit
    /\ ~past.last.storeErr /\ ~obs.storeErr /\ ~past.expired

\* C8: a non-streaming request issued twice in a row, the first served by a
\* provider (cache_hit = false), no store failure and no expiry: the second
\* reports cache_hit = true and cost_usd = 0.
C8_RepeatIsCacheHit ==
    RepeatOfServedRequest =>
        /\ out.status = 200
        /\ out.cacheHit = Some(TRUE)
        /\ out.costUSD = Some(0)

\* a repeated request that carries a temperature has been answered
C8_Witness ==
    /\ RepeatOfServedRequest
    /\ ~IsNil(req.Temperature)

\* C9: while a request with stream = true is handled, and after it, whatever
\* cache_enabled says and however the stream ends, the handler has made no
\* cache read and no cache write.
C9_StreamBypassesCache ==
    req.Stream => (obs.cacheReads = 0 /\ obs.cacheWrites = 0)

\* a stream of a caller with caching enabled ran to its [DONE]
C9_Witness ==
    /\ req.Stream /\ apiKey.CacheEnabled
    /\ pc = "done"
    /\ out.frames # <<>> /\ out.frames[Len(out.frames)] = "[DONE]"
    /\ obs.providerCalls = 1

C10_HitStep ==
    (pc = "cacheGet" /\ loc'.cacheHit) =>
        /\ pc' = "done"
        /\ cache' = cache
        /\ obs'.providerCalls = 0
        /\ obs'.cacheWrites = 0
        /\ out'.body.CostUSD = 0
        /\ out'.costUSD = Some(0)

\* C10: the step that answers from the cache leaves the store as it was
\* (the entry keeps its stored cost), ends the request without a provider
\* call and without a cache write, and returns a copy whose cost_usd is 0.
C10_CacheHitTouchesNothing == [][C10_HitStep]_vars

\* a hit on an entry stored with a cost above zero
C10_Witness ==
    /\ pc = "done" /\ loc.cacheHit
    /\ out.costUSD = Some(0)
    /\ \E e \in cache : /\ e.key = generateCacheKey(req)
                        /\ "CostUSD" \in DOMAIN e.data
                        /\ e.data.CostUSD > 0

(***************************************************************************)
(* Properties of the stream readers and the streaming loop (SpecStream)    *)
(***************************************************************************)

\* the line is one the provider's reader takes for a data line
IsDataLine(provider, line) ==
    IF provider = "anthropic" THEN HasPrefix(line, <<"data:">>)
    ELSE HasPrefix(line, <<"data:", " ">>)

\* the payload of the data line parses
Parses(provider, line) ==
    IF provider = "anthropic" THEN AnthropicJSON(DataStr(line)).ok
    ELSE GeminiJSON(DataStr(line)).ok

\* a data line that fails to parse
Malformed(provider, line) == IsDataLine(provider, line) /\ ~Parses(provider, line)

\* the upstream event carries text: an Anthropic text delta, a Gemini
\* candidate with text
ContentBearing(provider, line) ==
    /\ IsDataLine(provider, line)
    /\ IF provider = "anthropic"
       THEN LET event == AnthropicJSON(DataStr(line))
            IN event.ok /\ event.type = "content_block_delta" /\ event.text # ""
       ELSE LET resp == GeminiJSON(DataStr(line))
            IN resp.ok /\ resp.candidates > 0 /\ resp.text # ""

\* the positions of the content-bearing events, in upstream order
ContentPositions ==
    SelectSeq([i \in 1..Len(srIn.lines) |-> i],
              LAMBDA i : ContentBearing(srIn.provider, srIn.lines[i]))

\* the text of an upstream content event
ContentOf(provider, line) ==
    IF provider = "anthropic" THEN AnthropicJSON(DataStr(line)).text
    ELSE GeminiJSON(DataStr(line)).text

\* C13: when a stream that ends in EOF has been written out, the frames are
\* one chunk frame per content-bearing upstream event, in the upstream
\* order and with that event's text, followed by exactly one [DONE] frame,
\* which is the last frame; the other events leave no frame.
C13_OneChunkPerContentEvent ==
    (sr.pc = "done" /\ srIn.end = "eof") =>
        /\ Len(sr.frames) = Len(ContentPositions) + 1
        /\ sr.frames[Len(sr.frames)] = DoneFrame
        /\ \A k \in 1..Len(ContentPositions) :
              /\ sr.frames[k].kind = "chunk"
              /\ sr.frames[k].src = ContentPositions[k]
              /\ sr.frames[k].chunk.content =
                     ContentOf(srIn.provider, srIn.lines[ContentPositions[k]])

\* a finished stream with content events among events without content
C13_Witness ==
    /\ sr.pc = "done" /\ srIn.end = "eof"
    /\ Len(ContentPositions) >= 2
    /\ Len(ContentPositions) < Len(srIn.lines)
    /\ sr.frames[Len(sr.frames)] = DoneFrame

\* C20 (a): no chunk frame comes from a data line that fails to parse;
\* (b): the loop ends on an error only when the transport read failed, after
\* every line before the failure was read, and the error frame is the last
\* frame; (c): when the body ends in EOF the loop reaches [DONE], and every
\* content-bearing line has its chunk frame, those after a malformed line
\* included.
C20_MalformedLinesAreSkipped ==
    /\ \A k \in 1..Len(sr.frames) :
          sr.frames[k].kind = "chunk" =>
              /\ sr.frames[k].src \in 1..Len(srIn.lines)
              /\ ~Malformed(srIn.provider, srIn.lines[sr.frames[k].src])
    /\ \A k \in 1..Len(sr.frames) :
          sr.frames[k].kind = "error" =>
              /\ srIn.end = "reset"
              /\ k = Len(sr.frames)
              /\ sr.pos = Len(srIn.lines) + 1
    /\ sr.pc = "done" =>
          /\ sr.pos = Len(srIn.lines) + 1
          /\ sr.frames[Len(sr.frames)] = IF srIn.end = "eof" THEN DoneFrame ELSE ErrorFrame
          /\ \A i \in 1..Len(srIn.lines) :
                ContentBearing(srIn.provider, srIn.lines[i]) =>
                    \E k \in 1..Len(sr.frames) :
                        sr.frames[k].kind = "chunk" /\ sr.frames[k].src = i

\* a malformed data line came first and the content line after it was
\* written as a chunk, then the stream ended
C20_Witness ==
    /\ sr.pc = "done"
    /\ Len(srIn.lines) >= 2
    /\ Malformed(srIn.provider, srIn.lines[1])
    /\ ContentBearing(srIn.provider, srIn.lines[2])
    /\ \E k \in 1..Len(sr.frames) : sr.frames[k].kind = "chunk" /\ sr.frames[k].src = 2

(***************************************************************************)
(* Properties of the route (SpecGate)                                      *)
(***************************************************************************)

\* the request was handed to HandleChatCompletion
InHandler(p) == gate[p].stage \in {"handler", "served"}

\* CheckRateLimit returned without an error and did not reject: the SET or
\* the INCR of the request on the caller's counter succeeded
Counted(p) ==
    /\ rlProc[p].pc = "done" /\ rlProc[p].passed
    /\ rlProc[p].headers.remaining # Absent

\* CheckRateLimit returned an error and the middleware called next
FailedOpen(p) ==
    /\ rlProc[p].pc = "done" /\ rlProc[p].passed
    /\ rlProc[p].headers = NoHeaders

\* the rate-limit check runs only for an authenticated request, and the
\* handler only for a request that the check let through
GateOrder ==
    /\ \A p \in GateProcs :
          rlProc[p].pc # "idle" => gate[p].stage \notin {"idle", "rejected"} /\ gate[p].status = 0
    /\ \A p \in GateProcs :
          InHandler(p) => /\ gate[p].status = 0
                          /\ rlProc[p].pc = "done" /\ rlProc[p].passed
                          /\ rlProc[p].status # 429
    /\ (\A p \in GateProcs : ~InHandler(p)) =>
          /\ pc = "idle" /\ cache = {} /\ obs = NoObs /\ out = NoOut

\* a step that reads or writes the cache, calls a provider, writes a log
\* record or answers from the handler belongs to a request the check let
\* through; the step that rejects a request is none of these
GateStep ==
    (<<cache, pc, req, loc, out, obs>>' # <<cache, pc, req, loc, out, obs>>) =>
        \E p \in GateProcs :
            /\ gate'[p].stage = "handler"
            /\ gate[p].stage \in {"ratelimit", "handler"}
            /\ rlProc[p].pc = "done" /\ rlProc[p].passed /\ rlProc[p].status # 429
            /\ rlProc' = rlProc

\* C18 as stated: the rate-limit check runs after authentication and before
\* any cache access or provider call, a request rejected by the rate limiter
\* or by authentication causes no cache read, cache write, provider call or
\* log record, and every request that reaches the handler has been counted
\* against the caller's window.
C18_EveryHandledRequestWasCounted ==
    /\ [](GateOrder /\ \A p \in GateProcs : InHandler(p) => Counted(p))
    /\ [][GateStep]_vars

\* C18, amended: the same ordering and the same absence of effects for a
\* rejected request; a request that reaches the handler has either been
\* counted (its SET or INCR on the caller's counter succeeded) or was let
\* through uncounted because the rate-limit store returned an error.
C18_GateOrdering ==
    /\ [](GateOrder /\ \A p \in GateProcs : InHandler(p) => (Counted(p) \/ FailedOpen(p)))
    /\ [][GateStep]_vars

\* one request was counted and served by a provider call, the next one of
\* the caller was rejected with 429 and stopped at the rate limiter
C18_Witness ==
    \E p, q \in GateProcs :
        /\ gate[p].stage = "handler" /\ Counted(p)
        /\ pc = "done" /\ obs.providerCalls = 1 /\ Len(obs.logs) = 1
        /\ gate[q].stage = "ratelimit" /\ rlProc[q].pc = "done"
        /\ rlProc[q].status = 429 /\ ~rlProc[q].passed

(***************************************************************************)
(* Properties of the background work (SpecBg)                              *)
(***************************************************************************)

\* the step starts goroutines of logRequest
StartsTasks == Len(bg'.tasks) > Len(bg.tasks)

C21_Step ==
    /\ StartsTasks =>
          /\ pc' = "done" /\ out'.status # 0
          /\ Len(bg'.tasks) = Len(bg.tasks) + 2
          /\ \A i \in Len(bg.tasks) + 1..Len(bg'.tasks) : bg'.tasks[i].state = "running"
          /\ [i \in 1..Len(bg.tasks) |-> bg'.tasks[i]] = bg.tasks
    /\ (~StartsTasks /\ bg'.tasks # bg.tasks) =>
          \* the next request enters the handler
          \/ bg'.tasks = <<>> /\ bg'.reqCtx = "live" /\ pc \in {"idle", "done"}
          \* a goroutine ends
          \/ /\ <<pc, out, loc, obs, cache>>' = <<pc, out, loc, obs, cache>>
             /\ Len(bg'.tasks) = Len(bg.tasks)
             /\ \A i \in 1..Len(bg.tasks) : bg'.tasks[i].state # "cancelled"

\* C21: the log write and the last-used update are started and left running
\* by the step that ends the request with its response, so the response does
\* not wait for them; whether they then succeed, fail or never return, no
\* step of theirs changes the response; and they are never cancelled, the
\* request context being cancelled or not.
C21_LoggingIsDetached ==
    /\ [][C21_Step]_vars
    /\ [](\A i \in 1..Len(bg.tasks) : bg.tasks[i].state # "cancelled")

\* the request was answered, its context is cancelled, its log write
\* failed and its last-used update has not returned
C21_Witness ==
    /\ pc = "done" /\ out.status = 200
    /\ bg.reqCtx = "cancelled"
    /\ Len(bg.tasks) = 2
    /\ bg.tasks[1].kind = "log" /\ bg.tasks[1].state = "failed"
    /\ bg.tasks[2].kind = "touch" /\ bg.tasks[2].state = "running"

(***************************************************************************)
(* Properties of the cost computation (Spec)                               *)
(***************************************************************************)

\* C22: once the provider has answered a non-streaming request, the
\* response is produced without waiting for the pricing lookup: while the
\* lookup is outstanding the response has already gone out.
C22_ResponseDoesNotWaitForPricing ==
    (pc = "cost" /\ ~req.Stream) => out.status = 200

\* the provider has answered and the handler is in the pricing lookup
C22_Witness ==
    /\ pc = "cost" /\ ~req.Stream
    /\ loc.resp # NoResp /\ obs.providerCalls >= 1

\* the request was served by a provider, not by the cache
ServedByProvider ==
    /\ pc = "done" /\ ~req.Stream /\ ~loc.cacheHit
    /\ obs.providerCalls >= 1 /\ loc.resp # NoResp

\* C23: when the pricing lookup of a response a provider served fails (no
\* row, or the database errs), the response is 200 with the provider's
\* model, content and usage and cost_usd = 0; the headers name the serving
\* provider and a cache miss, and the one log record says 200.
C23_PricingFailureCostsZero ==
    (ServedByProvider /\ loc.costErr # "") =>
        /\ out.status = 200
        /\ out.body = [ProviderResponse(loc.providerName, out.body.Model) EXCEPT !.CostUSD = 0]
        /\ out.costUSD = Some(0)
        /\ out.provider = Some(loc.providerName)
        /\ out.cacheHit = Some(FALSE)
        /\ out.failover = IF loc.failoverUsed THEN Some("true") ELSE Absent
        /\ Len(obs.logs) = 1 /\ obs.logs[1].StatusCode = 200 /\ obs.logs[1].CostUSD = 0

\* the database failed on the pricing lookup of a served response
C23_Witness ==
    /\ ServedByProvider /\ loc.costErr = "database error"
    /\ out.status = 200 /\ out.costUSD = Some(0)
    /\ out.body.Content # <<>>

\* C24: when the pricing store answers, the cost of a response a provider
\* served is the one of the row (serving provider, model served) applied to
\* the usage of that response, after a failover too.
C24_CostFromServedModel ==
    (ServedByProvider /\ loc.costErr # "database error") =>
        out.body.CostUSD = calculateCost(loc.providerName, out.body.Model, out.body.Usage, TRUE)

\* a response served by a fallback, with the pricing store answering
C24_Witness ==
    /\ ServedByProvider /\ loc.failoverUsed
    /\ loc.costErr # "database error"
    /\ out.body.Model # req.Model

(***************************************************************************)
(* Properties of the request translation (SpecTr)                          *)
(***************************************************************************)

\* the system messages of the request, in order
SystemMessages == SelectSeq(trIn.Messages, LAMBDA m : m.Role = "system")

\* the other messages, in order, as role and content
OtherMessages ==
    LET rest == SelectSeq(trIn.Messages, LAMBDA m : m.Role # "system")
    IN [i \in 1..Len(rest) |-> [Role |-> rest[i].Role, Content |-> rest[i].Content]]

\* C25: in the Anthropic request of either call no message has role system,
\* the messages are the other messages of the request with role and content
\* unchanged and in their order, and the system field is the content of the
\* last system message.
C25_AnthropicSystemLastWins ==
    trOut # <<>> =>
        \A u \in {trOut[1].anthropic, trOut[1].anthropicStream} :
            /\ \A i \in 1..Len(u.Messages) : u.Messages[i].Role # "system"
            /\ u.Messages = OtherMessages
            /\ SystemMessages # <<>> =>
                   u.System = SystemMessages[Len(SystemMessages)].Content

\* two system messages with different contents around a user message
C25_Witness ==
    /\ trOut # <<>>
    /\ Len(SystemMessages) = 2
    /\ SystemMessages[1].Content = <<"A">> /\ SystemMessages[2].Content = <<"B">>
    /\ Len(OtherMessages) = 1
    /\ trOut[1].anthropic.System = <<"B">>

\* the parameters as the upstream request of a provider carries them
UpstreamParams(name, u) ==
    IF name = "openai"
    THEN [temperature |-> u.Temperature, max_tokens |-> u.MaxTokens, top_p |-> u.TopP]
    ELSE IF name = "anthropic"
         THEN [temperature |-> IF IsNil(u.Temperature) THEN 0 ELSE u.Temperature.val,
               max_tokens  |-> u.MaxTokens,
               top_p       |-> 0]
         ELSE LET g == u.GenerationConfig
              IN [temperature |-> IF g = Absent \/ IsNil(g[1].Temperature) THEN 0
                                  ELSE g[1].Temperature.val,
                  max_tokens  |-> IF g = Absent \/ IsNil(g[1].MaxOutputTokens) THEN 0
                                  ELSE g[1].MaxOutputTokens.val,
                  top_p       |-> IF g = Absent \/ IsNil(g[1].TopP) THEN 0 ELSE g[1].TopP.val]

\* what the caller supplied: 0 stands for a parameter that is not in the
\* upstream request
SuppliedParams(name) ==
    [temperature |-> trIn.Temperature.val,
     max_tokens  |-> IF name = "anthropic" /\ IsNil(trIn.MaxTokens)
                     THEN AnthropicDefaultMaxTokens ELSE trIn.MaxTokens.val,
     top_p       |-> trIn.TopP.val]

\* C26: in the upstream request of each Provider Client, for the single-shot
\* and for the streaming call, temperature, max_tokens and top_p have the
\* values the caller supplied, and a parameter the caller did not supply is
\* not there (Anthropic's max_tokens then has its default).
C26_ParametersPassThrough ==
    trOut # <<>> =>
        /\ UpstreamParams("openai", trOut[1].openai) = SuppliedParams("openai")
        /\ UpstreamParams("openai", trOut[1].openaiStream) = SuppliedParams("openai")
        /\ UpstreamParams("anthropic", trOut[1].anthropic) = SuppliedParams("anthropic")
        /\ UpstreamParams("anthropic", trOut[1].anthropicStream) = SuppliedParams("anthropic")
        /\ UpstreamParams("google", trOut[1].google) = SuppliedParams("google")
        /\ UpstreamParams("google", trOut[1].googleStream) = SuppliedParams("google")

\* a request with all three parameters was translated
C26_Witness ==
    /\ trOut # <<>>
    /\ ~IsNil(trIn.Temperature) /\ ~IsNil(trIn.MaxTokens) /\ ~IsNil(trIn.TopP)
    /\ trIn.MaxTokens.val > 0

(***************************************************************************)
(* Properties of the Anthropic stream reader (SpecStream)                  *)
(***************************************************************************)

\* the type of the event on a line of the Anthropic stream ("" for a line
\* that is no data line or does not parse)
EventType(line) ==
    IF HasPrefix(line, <<"data:">>) /\ AnthropicJSON(DataStr(line)).ok
    THEN AnthropicJSON(DataStr(line)).type ELSE ""

\* a content_block_delta with text
TextDelta(line) ==
    EventType(line) = "content_block_delta" /\ AnthropicJSON(DataStr(line)).text # ""

\* the positions of the text deltas and of the message_start markers
EmittingPositions ==
    SelectSeq([i \in 1..Len(srIn.lines) |-> i],
              LAMBDA i : TextDelta(srIn.lines[i]) \/ EventType(srIn.lines[i]) = "message_start")

ChunkFrames == SelectSeq(sr.frames, LAMBDA f : f.kind = "chunk")

C28_CancellationEndsTraversal ==
    [][mgr.ctx = "canceled" => mgr'.calls = mgr.calls]_vars

\* the context was cancelled during the first fallback call and the manager is
\* about to call the second fallback
C28_Witness ==
    /\ mgr.ctx = "canceled"
    /\ mgr.pc = "fallback"
    /\ mgr.idx = 2
    /\ Len(mgr.calls) = 2

\* a cancellation during the primary call does end the traversal
C28_PrimaryCancellationReturns ==
    (mgr.primaryErr # NoErr /\ mgr.primaryErr.kind = "canceled") =>
        /\ mgr.pc = "returned"
        /\ Len(mgr.calls) = 1

\* the positions of the static chain whose model belongs to a configured provider
ConfiguredPositions(model, cfg) ==
    {i \in DOMAIN FailoverTable(model) : detectProvider(FailoverTable(model)[i]) \in cfg}

\* chain is the subsequence of table at exactly the positions keep, in order
IsSubsequenceAt(chain, table, keep) ==
    /\ Len(chain) = Cardinality(keep)
    /\ \E f \in [DOMAIN chain -> keep] :
          /\ \A j, k \in DOMAIN chain : j < k => f[j] < f[k]
          /\ \A k \in DOMAIN chain : chain[k] = table[f[k]]

\* C29: for every model and every set of configured providers GetFailoverChain
\* returns the order-preserving subsequence of the model's static chain whose
\* fallback models belong to a configured provider, empty when the model has
\* no chain; the fallbacks tried are those of the chain of the originally
\* requested model, in its order, never of a fallback model's chain
C29_ChainOfOriginalModelFiltered ==
    /\ \A model \in MgrModels, cfg \in SUBSET ProviderNames :
          /\ IsSubsequenceAt(GetFailoverChain(model, cfg), FailoverTable(model),
                             ConfiguredPositions(model, cfg))
          /\ FailoverTable(model) = <<>> => GetFailoverChain(model, cfg) = <<>>
    /\ LET table == FailoverTable(mgr.originalModel)
           keep  == ConfiguredPositions(mgr.originalModel, configured)
           tried == [k \in 1..(Len(mgr.calls) - 1) |-> mgr.calls[k + 1].model]
       IN /\ mgr.calls # <<>> => mgr.calls[1].model = mgr.originalModel
          /\ \E n \in 0..Cardinality(keep) :
                /\ Len(tried) = n
                /\ \E f \in [1..n -> keep] :
                      /\ \A k \in 1..n : tried[k] = table[f[k]]
                      /\ \A j, k \in 1..n : j < k => f[j] < f[k]
                      \* no configured fallback is passed over
                      /\ \A k \in 1..n : Cardinality({i \in keep : i <= f[k]}) = k
          /\ mgr.pc = "fallback" =>
                /\ mgr.chain = GetFailoverChain(mgr.originalModel, configured)
                /\ mgr.model = mgr.chain[mgr.idx]

\* gpt-4o with anthropic not configured: the chain <<sonnet, gemini-pro>> is cut
\* to <<gemini-pro>>, which was tried after the primary
C29_Witness ==
    /\ mgr.originalModel = GPT4o
    /\ "anthropic" \notin configured
    /\ Len(FailoverTable(GPT4o)) = 2
    /\ Len(mgr.calls) = 2
    /\ mgr.calls[2].model = GemPro
    /\ mgr.pc = "returned"

(***************************************************************************)
(* The rate limiter fails open                                             *)
(***************************************************************************)

\* C30: a request whose rate-limit store access returned an error (on GET, on
\* the initial SET or on INCR) is passed on to the handler, is not answered
\* with 429 and carries no X-RateLimit or Retry-After header; the same holds
\* for a request without identity in its context
C30_RateLimiterFailsOpen ==
    \A p \in Procs :
        (rlProc[p].pc = "done" /\ (rlProc[p].err \/ ~rlProc[p].hasKey)) =>
            /\ rlProc[p].passed
            /\ rlProc[p].status # 429
            /\ rlProc[p].headers = NoHeaders

\* the step of a request whose store command fails: from GET, SET or INCR
\* straight to the handler, the store untouched
C30_StoreErrorStep ==
    [][\A p \in Procs :
          (rlProc'[p].err /\ ~rlProc[p].err) =>
              /\ rlProc[p].pc \in {"get", "set", "incr"}
              /\ rlProc'[p].pc = "done" /\ rlProc'[p].passed
              /\ rlStore' = rlStore]_vars

\* the store failed on the INCR of a request that found the window used up to
\* one below the limit, and one request came without identity
C30_Witness ==
    /\ \E p \in Procs : /\ rlProc[p].pc = "done" /\ rlProc[p].err
                         /\ rlProc[p].count >= 1 /\ rlProc[p].passed
    /\ \E p \in Procs : rlProc[p].pc = "done" /\ ~rlProc[p].hasKey

(***************************************************************************)
(* Injectivity of the cache key (SpecKey)                                  *)
(***************************************************************************)

\* C31: two non-streaming requests that differ in model, in the sequence of
\* (role, content) of their messages, or in the value of temperature,
\* max_tokens or top_p never get the same key
C31_DifferentRequestsDifferentKeys ==
    (keyOut # <<>> /\ ~SameRequest(keyIn[1], keyIn[2])) => keyOut[1] # keyOut[2]

\* two requests alike but for the temperature, 0.7 and 0.9, each decoded to
\* the same heap address, were given one key
C31_Witness ==
    /\ keyOut # <<>>
    /\ keyIn[1].Model = keyIn[2].Model /\ keyIn[1].Messages = keyIn[2].Messages
    /\ ~IsNil(keyIn[1].Temperature) /\ ~IsNil(keyIn[2].Temperature)
    /\ keyIn[1].Temperature.val # keyIn[2].Temperature.val
    /\ keyIn[1].Temperature.addr = keyIn[2].Temperature.addr
    /\ keyOut[1] = keyOut[2]

\* what does hold: requests that differ in model or messages, or in which
\* optional fields are present, get different keys
C31_ModelAndMessagesSeparate ==
    (keyOut # <<>> /\ \/ keyIn[1].Model # keyIn[2].Model
                      \/ keyIn[1].Messages # keyIn[2].Messages
                      \/ IsNil(keyIn[1].Temperature) # IsNil(keyIn[2].Temperature)
                      \/ IsNil(keyIn[1].MaxTokens) # IsNil(keyIn[2].MaxTokens)
                      \/ IsNil(keyIn[1].TopP) # IsNil(keyIn[2].TopP))
        => keyOut[1] # keyOut[2]

(***************************************************************************)
(* Streaming requests: cost and log record (Spec)                          *)
(***************************************************************************)

\* the stream of the request ended with EOF: [DONE] was written
StreamCompleted ==
    /\ req.Stream /\ pc = "done"
    /\ out.frames # <<>> /\ out.frames[Len(out.frames)] = "[DONE]"

LogsDue ==
    IF out.status = 400 THEN 0
    ELSE IF req.Stream THEN (IF StreamCompleted THEN 1 ELSE 0)
    ELSE 1

\* the request was turned away by AuthMiddleware or by RateLimitMiddleware
Rejected(p) == gate[p].stage = "rejected" \/ rlProc[p].status = 429

C33_State ==
    /\ pc = "done" => Len(obs.logs) = LogsDue
    /\ pc # "done" => obs.logs = <<>>
    /\ \A p \in GateProcs : Rejected(p) => ~InHandler(p)

C33_Step ==
    /\ (\E p \in GateProcs : Rejected(p)' /\ ~Rejected(p)) =>
          /\ obs' = obs /\ bg' = bg
    /\ Len(obs'.logs) > Len(obs.logs) =>
          /\ Len(obs'.logs) = Len(obs.logs) + 1
          /\ bg'.tasks = bg.tasks \o <<Task("log"), Task("touch")>>
          /\ \E p \in GateProcs : gate[p].stage = "handler" /\ ~Rejected(p)

\* C33: exactly one log record is submitted for each non-streaming request
\* whose body parses (cache hit, provider success, provider error answered
\* 500) and for each streaming request that ends with EOF; none for a
\* request rejected by authentication, by the rate limiter or for its body,
\* for a stream whose creation fails or for a stream that ends with a read
\* error
C33_OneLogRecordPerRequest ==
    /\ []C33_State
    /\ [][C33_Step]_vars

\* a request was rejected by authentication, and the provider error of
\* the next one was answered 500 and logged
C33_Witness ==
    /\ \E p \in GateProcs : gate[p].stage = "rejected"
    /\ pc = "done" /\ ~req.Stream /\ out.status = 500
    /\ Len(obs.logs) = 1 /\ obs.logs[1].StatusCode = 500

\* a stream ended with a read error after a chunk: no log record
C33_WitnessStreamError ==
    /\ pc = "done" /\ req.Stream
    /\ out.frames # <<>> /\ out.frames[Len(out.frames)] = "error"
    /\ obs.logs = <<>>

(***************************************************************************)
(* Bounds of the failover traversal (SpecMgr)                              *)
(***************************************************************************)

C34_State ==
    LET k == Len(GetFailoverChain(mgr.originalModel, configured))
    IN /\ k <= 2
       /\ Len(mgr.calls) <= 1 + k
       /\ \A i, j \in 1..Len(mgr.calls) : i # j => mgr.calls[i].model # mgr.calls[j].model
       /\ \A i \in 2..Len(mgr.calls) : mgr.calls[i].provider # mgr.calls[1].provider

\* every step of ChatCompletion is a provider call or its return
C34_Step ==
    (mgr.pc \in {"primary", "fallback"} /\ mgr' # mgr) =>
        /\ Len(mgr'.calls) = Len(mgr.calls) + 1
        /\ mgr'.pc \in {"fallback", "returned"}

\* C34: whatever the providers answer, Manager.ChatCompletion returns after at
\* most 1 + k provider calls, k <= 2 being the length of the filtered chain;
\* no model is called twice and no fallback call goes to the provider of the
\* primary
C34_BoundedAttempts ==
    /\ []C34_State
    /\ [][C34_Step]_vars

\* the primary and both fallbacks were called and all failed
C34_Witness ==
    /\ mgr.pc = "returned"
    /\ Len(mgr.calls) = 3
    /\ \A i \in 1..3 : ~mgr.calls[i].ok
    /\ mgr.ret.err = ErrAllFailed(mgr.originalModel)

\* the last provider call made
LastCall(m) == m.calls[Len(m.calls)]

\* a fallback call that failed is followed by the next fallback of the
\* chain, or, after the last one, by the aggregate error
C35_Step ==
    (mgr.pc = "fallback" /\ mgr' # mgr /\ ~LastCall(mgr').ok) =>
        /\ Len(mgr'.calls) = Len(mgr.calls) + 1
        /\ IF mgr.idx < Len(mgr.chain)
           THEN /\ mgr'.pc = "fallback"
                /\ mgr'.idx = mgr.idx + 1
                /\ mgr'.model = mgr.chain[mgr.idx + 1]
           ELSE /\ mgr'.pc = "returned"
                /\ mgr'.ret.err = ErrAllFailed(mgr.originalModel)

\* the traversal has ended: by a success, or at the end of the chain
C35_State ==
    (mgr.pc = "returned" /\ Len(mgr.calls) >= 2) =>
        \/ LastCall(mgr).ok /\ mgr.ret.err = NoErr
        \/ Len(mgr.calls) = 1 + Len(GetFailoverChain(mgr.originalModel, configured))

\* C35: during the fallback traversal a fallback that fails, with a retryable
\* or with a permanent error, is skipped and the next fallback of the chain
\* is attempted; only a success or the end of the chain ends the traversal
C35_FallbackErrorsDoNotStop ==
    /\ []C35_State
    /\ [][C35_Step]_vars

\* the first fallback failed with a permanent error and the second one served
C35_Witness ==
    /\ mgr.pc = "returned"
    /\ Len(mgr.calls) = 3
    /\ ~mgr.calls[2].ok /\ ~mgr.calls[2].retryable
    /\ mgr.calls[3].ok
    /\ mgr.ret.failoverUsed

(***************************************************************************)
(* What is written to the cache (Spec)                                     *)
(***************************************************************************)

\* a step that puts an entry into the cache is the Set after a successful
\* provider call of a non-streaming request of a caller with caching enabled
C36_Step ==
    (cache' \ cache # {}) =>
        /\ pc = "cacheSet" /\ pc' = "done"
        /\ ~req.Stream /\ apiKey.CacheEnabled
        /\ ~loc.cacheHit /\ obs.providerCalls >= 1
        /\ loc.resp # NoResp
        /\ loc.resp.Content = <<"reply of ", loc.providerName>>
        /\ out'.status = 200
        /\ cache' \ cache = {[key |-> generateCacheKey(req), data |-> Marshal(loc.resp),
                               ttl |-> apiKey.CacheTTLSeconds > 0]}

\* a request answered 500 made no cache write; the request after a first
\* request that ended in a provider error is no cache hit
C36_State ==
    /\ (pc = "done" /\ out.status = 500) => obs.cacheWrites = 0
    /\ (past.n = 2 /\ past.last.status = 500) => (~loc.cacheHit /\ out.cacheHit # Some(TRUE))
    /\ \A e \in cache : \E name \in ProviderNames : e.data.Content = <<"reply of ", name>>

\* C36: a cache entry is written only after a provider call returned a
\* success, for a non-streaming request of a caller with caching enabled; a
\* request that ends in a provider error or in the exhaustion error writes
\* nothing, so a later identical request is again a miss
C36_ErrorsAreNeverCached ==
    /\ []C36_State
    /\ [][C36_Step]_vars

\* with caching enabled the first request ended in a provider error; the
\* same request, sent again, missed the cache and was served by a provider
C36_Witness ==
    /\ past.n = 2 /\ past.last.status = 500
    /\ apiKey.CacheEnabled /\ ~req.Stream
    /\ ValuesOf(req) = past.last.req
    /\ pc = "done" /\ out.status = 200
    /\ obs.cacheReads = 1 /\ ~obs.storeErr
    /\ out.cacheHit = Some(FALSE)
    /\ obs.providerCalls >= 1 /\ obs.cacheWrites = 1

(***************************************************************************)
(* The end of a stream (Spec)                                              *)
(***************************************************************************)

\* the positions of the frames of one kind
FramesOf(kind) == {i \in 1..Len(out.frames) : out.frames[i] = kind}

C37_State ==
    req.Stream =>
        /\ Cardinality(FramesOf("error")) <= 1
        /\ Cardinality(FramesOf("[DONE]")) <= 1
        /\ FramesOf("error") # {} =>
              /\ out.frames[Len(out.frames)] = "error"
              /\ FramesOf("[DONE]") = {}
              /\ pc = "done" /\ obs.stream = "closed"
        /\ FramesOf("[DONE]") # {} =>
              /\ out.frames[Len(out.frames)] = "[DONE]"
              /\ FramesOf("error") = {}
              /\ pc = "done" /\ obs.stream = "closed"
        /\ pc = "recv" => obs.stream = "open"

\* the step of the read error writes the one frame and returns
C37_Step ==
    (FramesOf("error")' # {} /\ FramesOf("error") = {}) =>
        /\ pc = "recv" /\ pc' = "done"
        /\ out'.frames = Append(out.frames, "error")
        /\ obs.stream = "open" /\ obs'.stream = "closed"

\* C37: when a stream read returns an error other than EOF, after zero or
\* more forwarded chunks, the handler writes exactly one error frame, as the
\* last frame, writes no [DONE] and no further chunk and closes the upstream
\* stream; [DONE] is written only for a stream that ended with EOF
C37_MidStreamFailure ==
    /\ []C37_State
    /\ [][C37_Step]_vars

\* a chunk was forwarded, then the read failed
C37_Witness ==
    /\ req.Stream /\ pc = "done"
    /\ out.frames = <<"chunk", "error">>
    /\ obs.stream = "closed"
    /\ obs.logs = <<>>

(***************************************************************************)
(* The cache after a failover (Spec)                                       *)
(***************************************************************************)

\* the request before this one was served by a fallback and stored, and this
\* one is the same request, answered with the store working and inside the TTL
RepeatOfFailoverServed ==
    /\ pc = "done"
    /\ past.n >= 2
    /\ apiKey.CacheEnabled
    /\ ~req.Stream
    /\ ValuesOf(req) = past.last.req
    /\ past.last.status = 200 /\ ~past.last.cacheHit /\ past.last.fallback # NoResp
    /\ ~past.last.storeErr /\ ~obs.storeErr /\ ~past.expired

\* the response of a fallback is stored under the key of the handler's own
\* request, which still names the model the caller asked for
C38_StoreStep ==
    (pc = "cacheSet" /\ pc' = "done" /\ loc.failoverUsed /\ cache' # cache) =>
        /\ loc.resp.Model # req.Model
        /\ \E e \in cache' : /\ e.key = generateCacheKey(req)
                             /\ e.data = Marshal(loc.resp)
                             /\ e.data.Model = loc.resp.Model

\* C38: a non-streaming response served by a fallback, caching enabled, is
\* stored under the fingerprint of the originally requested model; a later
\* identical request inside the TTL is a cache hit that returns the
\* fallback's response with no provider call
C38_CacheAfterFailover ==
    /\ [][C38_StoreStep]_vars
    /\ [](RepeatOfFailoverServed =>
             /\ out.status = 200
             /\ out.cacheHit = Some(TRUE)
             /\ obs.providerCalls = 0
             /\ out.body.Model = past.last.fallback.Model
             /\ out.body.Content = past.last.fallback.Content)

\* the repeated request carries a temperature, decoded at another address
\* than the first time, and was not answered from the cache
C38_Witness ==
    /\ RepeatOfFailoverServed
    /\ ~IsNil(req.Temperature)
    /\ out.cacheHit # Some(TRUE)
    /\ obs.providerCalls >= 1

\* for a request without optional fields the claim holds
C38_CacheAfterFailoverNoOptionalFields ==
    /\ [][C38_StoreStep]_vars
    /\ []((RepeatOfFailoverServed /\ IsNil(req.Temperature)) =>
             /\ out.status = 200
             /\ out.cacheHit = Some(TRUE)
             /\ obs.providerCalls = 0
             /\ out.body.Model = past.last.fallback.Model
             /\ out.body.Model # req.Model
             /\ out.body.Content = past.last.fallback.Content)

\* gpt-4o was served by a fallback, and its repeat was answered from the
\* cache with the fallback's response
C38_WitnessHit ==
    /\ RepeatOfFailoverServed /\ IsNil(req.Temperature)
    /\ out.cacheHit = Some(TRUE) /\ obs.providerCalls = 0
    /\ out.body.Model # req.Model

====
